---- MODULE Spec2Model ----
(***************************************************************************)
(* Model of the lsi_tcp control-loop runtime: the controller parameter     *)
(* map (BaseController, PController, ManualController), the simulated and  *)
(* the hardware plant (BaseTCLabSystem, FakeTCLabSystem, TCLabSystem), the *)
(* periodic setpoint profile and the closed-loop runner run_closed_loop.   *)
(*                                                                         *)
(* Ten specifications share  the definitions below:                        *)
(*   CtrlSpec   one controller under setParameters / computeControlAction  *)
(*   PlantSpec  one simulated plant under reads and writes of one caller   *)
(*   ProfileSpec  one setpoint profile under get_setpoints                 *)
(*   Spec       the runner thread, the plant's acquisition thread and the  *)
(*              keyboard interrupt, interleaved                            *)
(*   FairSpec   Spec with both threads scheduled fairly                    *)
(*   LockFairSpec  FairSpec with the main thread not starved at the lock   *)
(*   StepSpec   one plant channel under a constant command                 *)
(*   StopSpec   stop() called once and again                               *)
(*   ClosedLoopSpec  the proportional controller closed over the plant     *)
(*   TuneSpec   the dashboard's setParameters against the loop's compute   *)
(* Floating-point quantities are modelled by integers.                     *)
(***************************************************************************)
EXTENDS Integers, Sequences, FiniteSets, TLC

VARIABLES
    ctl,        \* the controller object, or NoController
    ctorValid,  \* whether the constructor's arguments satisfied its constraints
    keys0,      \* key set of the parameter map right after construction
    pending,    \* the dict of a setParameters call that was made and has not run yet
    last,       \* the last operation performed on the controller
    tune,       \* the setParameters call of the dashboard thread that is under way
    plant,      \* the plant object (FakeTCLabSystem or TCLabSystem)
    hist,       \* the reads and writes made on the plant, in order
    pcR,        \* where the main thread is in init_controllers / run_closed_loop
    pcB,        \* where the plant's acquisition thread is in _run
    clock,      \* (time.time() - t_init) * real_time_factor, in sampling periods
    maxDur,     \* max_duration, or None
    ref,        \* <<ref1, ref2>> of the tick
    meas,       \* <<measure1, measure2>> of the tick
    cmd,        \* <<u1, u2>> computed in the tick
    exc,        \* the exception in flight in the main thread, or "none"
    intr,       \* number of keyboard interrupts delivered so far
    logArgs,    \* <<self.u1, self.u2>> as evaluated by _run for _log_data
    obs,        \* what has been observed of the run so far
    csvTimes,   \* the sample times in the CSV file the profile was built from
    prof,       \* the SetpointProfile under lookup
    look        \* the last get_setpoints call and what it returned

ctrlVars == <<ctl, ctorValid, keys0, pending, last, tune>>
plantVars == <<plant, hist>>
loopVars == <<pcR, pcB, clock, maxDur, ref, meas, cmd, exc, intr, logArgs, obs>>
profVars == <<csvTimes, prof, look>>
vars == <<ctrlVars, plantVars, loopVars, profVars>>

----------------------------------------------------------------------------
(* Bounds and input domains of the controller model *)

\* Python's None (Optional[float] bounds)
None == -9999

\* longest parameter_dict handed to setParameters
MaxMapLen == 3

SamplingPeriodVals == {0, 1}
UMinVals == {None, 10, 50}
UMaxVals == {None, 10, 30, 100}
KpVals == {1, 3}
ManualVals == {20, 120}

ParamNames == {"sampling_period", "u_min", "u_max", "Kp", "manual_control_action"}

ValuesFor(name) ==
    CASE name = "sampling_period" -> SamplingPeriodVals
      [] name = "u_min" -> UMinVals
      [] name = "u_max" -> UMaxVals
      [] name = "Kp" -> KpVals
      [] name = "manual_control_action" -> ManualVals

Entries == UNION {{[name |-> n, value |-> v] : v \in ValuesFor(n)} : n \in ParamNames}

\* a Python dict literal: insertion-ordered entries with distinct keys
RECURSIVE DictsOfLen(_)
DictsOfLen(n) ==
    IF n = 0 THEN {<< >>}
    ELSE {Append(d, e) : d \in DictsOfLen(n - 1), e \in Entries}

DistinctKeys(d) == \A i, j \in 1..Len(d) : i # j => d[i].name # d[j].name

ParamDicts == UNION {{d \in DictsOfLen(n) : DistinctKeys(d)} : n \in 1..MaxMapLen}

RefVals == {30, 50}
MeasVals == {20, 50}
FfVals == {0, 5}

----------------------------------------------------------------------------
(* dict helpers *)

HasKey(d, name) == \E i \in 1..Len(d) : d[i].name = name

\* parameter_dict.get(name, default)
DictGet(d, name, default) ==
    IF HasKey(d, name)
    THEN d[CHOOSE i \in 1..Len(d) : d[i].name = name].value
    ELSE default

\* obj[name] = value on a dict, setattr(obj, name, value) on attributes
DictSet(f, name, value) ==
    [k \in (DOMAIN f) \cup {name} |-> IF k = name THEN value ELSE f[k]]

----------------------------------------------------------------------------
(* BaseController, PController, ManualController *)

NoController == [kind |-> "none", parameters |-> << >>, attrs |-> << >>]

\* BaseController.__init__: the checks, then the map and the attributes
BaseController_init(kind, sampling_period, u_min, u_max) ==
    IF sampling_period <= 0 THEN NoController
    ELSE IF u_min # None /\ u_max # None /\ u_min >= u_max THEN NoController
    ELSE [kind |-> kind,
          parameters |-> [sampling_period |-> sampling_period,
                          u_min |-> u_min, u_max |-> u_max],
          attrs |-> [sampling_period |-> sampling_period,
                     u_min |-> u_min, u_max |-> u_max]]

\* PController.__init__: super().__init__, _parameters.update({"Kp": Kp}), self.Kp
PController_init(sampling_period, Kp, u_min, u_max) ==
    LET b == BaseController_init("P", sampling_period, u_min, u_max)
    IN  IF b = NoController THEN NoController
        ELSE [b EXCEPT !.parameters = DictSet(b.parameters, "Kp", Kp),
                       !.attrs = DictSet(b.attrs, "Kp", Kp)]

\* ManualController.__init__
ManualController_init(sampling_period, u_min, u_max, manual_control_action) ==
    LET b == BaseController_init("Manual", sampling_period, u_min, u_max)
    IN  IF b = NoController THEN NoController
        ELSE [b EXCEPT
                !.attrs = DictSet(b.attrs, "manual_control_action", manual_control_action),
                !.parameters = DictSet(b.parameters, "manual_control_action",
                                       manual_control_action)]

Construct(a) ==
    IF a.kind = "P"
    THEN PController_init(a.sampling_period, a.extra, a.u_min, a.u_max)
    ELSE ManualController_init(a.sampling_period, a.u_min, a.u_max, a.extra)

\* BaseController._apply_saturation
apply_saturation(c, u) ==
    IF c.attrs.u_min # None /\ u < c.attrs.u_min THEN c.attrs.u_min
    ELSE IF c.attrs.u_max # None /\ u > c.attrs.u_max THEN c.attrs.u_max
    ELSE u

\* mutant of PController_compute: the feedforward term is left out
PController_compute_noFeedforward(c, reference, measure, feedforward) ==
    LET error == reference - measure
        u_fb == c.attrs.Kp * error
    IN  apply_saturation(c, u_fb)

\* mutant of PController_compute: the gain Kp is left out
PController_compute_unitGain(c, reference, measure, feedforward) ==
    LET error == reference - measure
        u == error + feedforward
    IN  apply_saturation(c, u)

\* PController.computeControlAction
PController_compute(c, reference, measure, feedforward) ==
    LET error == reference - measure
        u_fb == c.attrs.Kp * error
        u == u_fb + feedforward
    IN  apply_saturation(c, u)

\* mutant of ManualController_compute: the feedforward is added to the command
ManualController_compute_addsFeedforward(c, reference, measure, feedforward) ==
    apply_saturation(c, c.attrs.manual_control_action + feedforward)

\* ManualController.computeControlAction
ManualController_compute(c, reference, measure, feedforward) ==
    apply_saturation(c, c.attrs.manual_control_action)

computeControlAction(c, reference, measure, feedforward) ==
    IF c.kind = "P" THEN PController_compute(c, reference, measure, feedforward)
    ELSE ManualController_compute(c, reference, measure, feedforward)

\* PController.starting returns at once; ManualController.starting assigns the
\* attribute manual_control_action to itself
starting(c, reference, measure, initial_u, feedforward) ==
    IF c.kind = "Manual"
    THEN [c EXCEPT !.attrs.manual_control_action = c.attrs.manual_control_action]
    ELSE c

\* mutant of ValidationFails: the bound check written with > instead of >=
ValidationFails_strictOnly(c, d) ==
    LET new_sampling_period == DictGet(d, "sampling_period", c.attrs.sampling_period)
        new_u_min == DictGet(d, "u_min", c.attrs.u_min)
        new_u_max == DictGet(d, "u_max", c.attrs.u_max)
    IN  \/ new_sampling_period <= 0
        \/ new_u_min # None /\ new_u_max # None /\ new_u_min > new_u_max

\* mutant of ValidationFails: each supplied bound is checked against the other
\* bound's value before the call
ValidationFails_againstOld(c, d) ==
    LET new_sampling_period == DictGet(d, "sampling_period", c.attrs.sampling_period)
        new_u_min == DictGet(d, "u_min", c.attrs.u_min)
        new_u_max == DictGet(d, "u_max", c.attrs.u_max)
    IN  \/ new_sampling_period <= 0
        \/ new_u_min # None /\ c.attrs.u_max # None /\ new_u_min >= c.attrs.u_max
        \/ c.attrs.u_min # None /\ new_u_max # None /\ c.attrs.u_min >= new_u_max

\* the joint validation at the head of setParameters: TRUE when it raises ValueError
ValidationFails(c, d) ==
    LET new_sampling_period == DictGet(d, "sampling_period", c.attrs.sampling_period)
        new_u_min == DictGet(d, "u_min", c.attrs.u_min)
        new_u_max == DictGet(d, "u_max", c.attrs.u_max)
    IN  \/ new_sampling_period <= 0
        \/ new_u_min # None /\ new_u_max # None /\ new_u_min >= new_u_max

\* mutant of KnownKey: the membership test dropped, every key is written
KnownKey_unchecked(c, name) == TRUE

\* the membership test that guards each assignment of the apply loop
KnownKey(c, name) == name \in DOMAIN c.parameters

\* mutant of ApplyEntries: the map is written, the attribute is not
RECURSIVE ApplyEntries_mapOnly(_, _, _)
ApplyEntries_mapOnly(c, d, i) ==
    IF i > Len(d) THEN [ctl |-> c, result |-> "ok"]
    ELSE IF ~KnownKey(c, d[i].name) THEN [ctl |-> c, result |-> "KeyError"]
    ELSE ApplyEntries_mapOnly([c EXCEPT
                         !.parameters = DictSet(c.parameters, d[i].name, d[i].value)],
                      d, i + 1)

\* the apply loop of setParameters from entry i on: entries are written one by
\* one, in dict order, and the first unknown key raises KeyError
RECURSIVE ApplyEntries(_, _, _)
ApplyEntries(c, d, i) ==
    IF i > Len(d) THEN [ctl |-> c, result |-> "ok"]
    ELSE IF ~KnownKey(c, d[i].name) THEN [ctl |-> c, result |-> "KeyError"]
    ELSE ApplyEntries([c EXCEPT
                         !.parameters = DictSet(c.parameters, d[i].name, d[i].value),
                         !.attrs = DictSet(c.attrs, d[i].name, d[i].value)],
                      d, i + 1)

\* BaseController.setParameters
setParameters(c, d) ==
    IF ValidationFails(c, d) THEN [ctl |-> c, result |-> "ValueError"]
    ELSE ApplyEntries(c, d, 1)

\* BaseController.getParameters: dict(self._parameters), a new dict object
\* with the entries of the map; shared tells whether the object returned is
\* the controller's own map
getParameters(c) == [shared |-> FALSE, dict |-> c.parameters]

----------------------------------------------------------------------------
(* CtrlSpec: one controller, constructed with arbitrary arguments, then     *)
(* tuned and used in any order                                              *)

CtorArgs ==
    {[kind |-> "P", sampling_period |-> sp, u_min |-> lo, u_max |-> hi, extra |-> x] :
        sp \in SamplingPeriodVals, lo \in UMinVals, hi \in UMaxVals, x \in KpVals}
    \cup
    {[kind |-> "Manual", sampling_period |-> sp, u_min |-> lo, u_max |-> hi, extra |-> x] :
        sp \in SamplingPeriodVals, lo \in UMinVals, hi \in UMaxVals, x \in ManualVals}

\* no profile: SetpointProfile.__init__ raised ValueError, or no profile takes part
NoProfile == [valid |-> FALSE]

\* what is recorded of a get_setpoints call: the time asked, a number of whole
\* periods, and the values returned for t and for t + k * t_end
NoLookup ==
    [op |-> "none", t |-> 0, den |-> 1, k |-> 0, out |-> <<0, 0>>, shifted |-> <<0, 0>>]

\* what is observed of a run of the closed loop:
\*   trigger      what made the runner leave the loop first
\*   intrAt       where the runner was when the first interrupt was delivered
\*   hasWritten   a controller-computed command pair has been written
\*   steps        model steps since the last controller write (saturating)
\*   zeroDone     the zero write of the shutdown has completed
\*   stopCalled   process.stop() has been called
\*   stopBeforeZero, ctlWriteAfterZero   an order violation was seen
\*   finallyDone  the finally block ran to its end
\*   initReads    plant reads made by init_controllers
\*   starts       calls of starting() per controller
\*   computes     whether computeControlAction ran, per controller
\*   stops        calls of process.stop()
\*   written      the pair stored by the last writeControlCommands call that
\*                returned, <<0, 0>> before the first
NoObs == [trigger |-> "none", intrAt |-> "none", hasWritten |-> FALSE, steps |-> 0,
          zeroDone |-> FALSE, stopCalled |-> FALSE, stopBeforeZero |-> FALSE,
          ctlWriteAfterZero |-> FALSE, finallyDone |-> FALSE,
          initReads |-> 0, starts |-> <<0, 0>>, computes |-> <<FALSE, FALSE>>,
          stops |-> 0, written |-> <<0, 0>>]

\* no setParameters call under way in the dashboard thread:
\*   pc       "idle", "validate" (call made) or "apply" (inside the apply loop)
\*   i        index of the next entry the apply loop writes
\*   before   the controller as it was when the call was made
\*   result   outcome of the last call that ended
\*   torn     the last compute ran inside the apply loop on a controller that
\*            was neither the one before the call nor the one after it
\*   badPair  the last compute ran with both bounds present and u_min >= u_max
NoTune == [pc |-> "idle", i |-> 0, before |-> NoController, result |-> "none",
           torn |-> FALSE, badPair |-> FALSE]

\* no plant object: the value of plant where no plant takes part
NoPlant == [hardware |-> FALSE, running |-> FALSE]

\* the constraints on the constructor's arguments: sampling_period > 0 and,
\* when both bounds are present, u_min < u_max
ValidArgs(a) ==
    /\ a.sampling_period > 0
    /\ (a.u_min # None /\ a.u_max # None) => a.u_min < a.u_max

\* the dict of the documented example: setParameters({"u_min": 50, "u_max": 10})
ExampleDict == <<[name |-> "u_min", value |-> 50], [name |-> "u_max", value |-> 10]>>

\* the existing parameter values overlaid by the supplied dict
Merged(c, d) == [k \in DOMAIN c.parameters |-> DictGet(d, k, c.parameters[k])]

MergedViolates(c, d) ==
    LET m == Merged(c, d)
    IN  \/ m.sampling_period <= 0
        \/ m.u_min # None /\ m.u_max # None /\ m.u_min >= m.u_max

\* the dict supplies both bounds and one of them lies on the wrong side of
\* the other bound's value before the call
Crosses(c, d) ==
    /\ HasKey(d, "u_min") /\ HasKey(d, "u_max")
    /\ DictGet(d, "u_min", None) # None /\ DictGet(d, "u_max", None) # None
    /\ \/ c.attrs.u_max # None /\ DictGet(d, "u_min", None) >= c.attrs.u_max
       \/ c.attrs.u_min # None /\ DictGet(d, "u_max", None) <= c.attrs.u_min

HasUnknownKey(d) == \E i \in 1..Len(d) : d[i].name \notin keys0

\* what is recorded of the last operation: for a setParameters call its outcome,
\* whether the prospective merged state violated the constraints, whether the
\* dict held a key outside the initial key set, and whether any parameter value
\* (map entry or attribute) differs from before the call; for a compute call its
\* inputs and the command returned
NoOp == [op |-> "none", result |-> "ok", violates |-> FALSE, unknown |-> FALSE,
         changed |-> FALSE, example |-> FALSE, len |-> 0, crossed |-> FALSE,
         reference |-> 0, measure |-> 0, feedforward |-> 0, u |-> 0]

CtrlInit ==
    /\ \E a \in CtorArgs :
          /\ ctl = Construct(a)
          /\ ctorValid = ValidArgs(a)
    /\ keys0 = DOMAIN ctl.parameters
    /\ pending = << >>
    /\ last = NoOp /\ tune = NoTune
    /\ plant = NoPlant /\ hist = << >>
    /\ pcR = "idle" /\ pcB = "idle" /\ clock = 0 /\ maxDur = None
    /\ ref = <<0, 0>> /\ meas = <<0, 0>> /\ cmd = <<0, 0>>
    /\ exc = "none" /\ intr = 0 /\ logArgs = <<0, 0>> /\ obs = NoObs
    /\ csvTimes = {} /\ prof = NoProfile /\ look = NoLookup

\* the caller builds a dict and calls setParameters with it
CallSetParameters ==
    /\ ctl # NoController
    /\ pending = << >>
    /\ pending' \in ParamDicts
    /\ last' = NoOp
    /\ UNCHANGED <<ctl, ctorValid, keys0, tune, plantVars, loopVars, profVars>>

\* the call runs to its return or to the exception it raises
SetParameters ==
    /\ pending # << >>
    /\ \E r \in {setParameters(ctl, pending)} :
          /\ ctl' = r.ctl
          /\ last' = [NoOp EXCEPT !.op = "set", !.result = r.result,
                                  !.violates = MergedViolates(ctl, pending),
                                  !.unknown = HasUnknownKey(pending),
                                  !.changed = (r.ctl # ctl),
                                  !.example = (pending = ExampleDict),
                                  !.len = Len(pending),
                                  !.crossed = Crosses(ctl, pending)]
    /\ pending' = << >>
    /\ UNCHANGED <<ctorValid, keys0, tune, plantVars, loopVars, profVars>>

Compute ==
    /\ ctl # NoController
    /\ pending = << >>
    /\ \E r \in RefVals, m \in MeasVals, f \in FfVals :
          last' = [NoOp EXCEPT !.op = "compute",
                              !.reference = r, !.measure = m, !.feedforward = f,
                              !.u = computeControlAction(ctl, r, m, f)]
    /\ UNCHANGED <<ctl, ctorValid, keys0, tune, pending, plantVars, loopVars, profVars>>

\* initial_u values passed to starting()
InitialUVals == {0, 50}

\* starting(reference, measure, initial_u, feedforward)
Starting ==
    /\ ctl # NoController
    /\ pending = << >>
    /\ \E r \in RefVals, m \in MeasVals, u0 \in InitialUVals, f \in FfVals :
          \E c \in {starting(ctl, r, m, u0, f)} :
              /\ ctl' = c
              /\ last' = [NoOp EXCEPT !.op = "start", !.changed = (c # ctl),
                                      !.reference = r, !.measure = m, !.feedforward = f,
                                      !.u = u0]
    /\ UNCHANGED <<ctorValid, keys0, tune, pending, plantVars, loopVars, profVars>>

\* d = getParameters(); d[name] = value: the caller writes into the dict it
\* was given, which changes the controller's map only if it is that map
GetParameters ==
    /\ ctl # NoController
    /\ pending = << >>
    /\ \E e \in Entries :
          LET d == getParameters(ctl)
          IN  /\ e.name \in DOMAIN d.dict
              /\ ctl' = IF d.shared
                        THEN [ctl EXCEPT !.parameters = DictSet(d.dict, e.name, e.value)]
                        ELSE ctl
              /\ last' = [NoOp EXCEPT !.op = "get", !.changed = (ctl' # ctl)]
    /\ UNCHANGED <<ctorValid, keys0, tune, pending, plantVars, loopVars, profVars>>

CtrlNext == CallSetParameters \/ SetParameters \/ Compute \/ Starting \/ GetParameters

----------------------------------------------------------------------------
(* TuneSpec: one controller used by the control loop (computeControlAction) *)
(* while the dashboard thread runs setParameters on it, statement by        *)
(* statement; neither method takes a lock                                   *)

\* the parameter names of a controller in the order of its dict
ParameterOrder(c) ==
    <<"sampling_period", "u_min", "u_max">>
        \o (IF c.kind = "P" THEN <<"Kp">> ELSE <<"manual_control_action">>)

\* update_controller_parameters: one entry per input field of the controller
\* that holds a value, in the order of the fields
RECURSIVE DashDictsFrom(_, _)
DashDictsFrom(names, k) ==
    IF k > Len(names) THEN {<< >>}
    ELSE LET rest == DashDictsFrom(names, k + 1)
         IN  rest \cup {<<[name |-> names[k], value |-> v]>> \o d :
                            v \in ValuesFor(names[k]) \ {None}, d \in rest}

DashDicts(c) == DashDictsFrom(ParameterOrder(c), 1)

\* both bounds present and u_min >= u_max
BadPair(c) ==
    c.attrs.u_min # None /\ c.attrs.u_max # None /\ c.attrs.u_min >= c.attrs.u_max

TuneInit ==
    /\ \E a \in CtorArgs :
          /\ ValidArgs(a)
          /\ ctl = Construct(a)
    /\ ctorValid = TRUE
    /\ keys0 = DOMAIN ctl.parameters
    /\ pending = << >>
    /\ last = NoOp /\ tune = NoTune
    /\ plant = NoPlant /\ hist = << >>
    /\ pcR = "idle" /\ pcB = "idle" /\ clock = 0 /\ maxDur = None
    /\ ref = <<0, 0>> /\ meas = <<0, 0>> /\ cmd = <<0, 0>>
    /\ exc = "none" /\ intr = 0 /\ logArgs = <<0, 0>> /\ obs = NoObs
    /\ csvTimes = {} /\ prof = NoProfile /\ look = NoLookup

\* update_controller_parameters builds param_update and calls setParameters
DashCall ==
    /\ tune.pc = "idle"
    /\ pending' \in DashDicts(ctl)
    /\ tune' = [tune EXCEPT !.pc = "validate", !.i = 1, !.before = ctl]
    /\ UNCHANGED <<ctl, ctorValid, keys0, last, plantVars, loopVars, profVars>>

\* setParameters: the joint validation; ValueError is caught by the callback
DashValidate ==
    /\ tune.pc = "validate"
    /\ IF ValidationFails(ctl, pending)
       THEN /\ tune' = [tune EXCEPT !.pc = "idle", !.result = "ValueError"]
            /\ pending' = << >>
       ELSE /\ tune' = [tune EXCEPT !.pc = "apply"]
            /\ pending' = pending
    /\ UNCHANGED <<ctl, ctorValid, keys0, last, plantVars, loopVars, profVars>>

\* setParameters: one iteration of the apply loop, self._parameters[name] = value
\* and setattr(self, name, value); after the last entry the call returns
DashApply ==
    /\ tune.pc = "apply" /\ tune.i <= Len(pending)
    /\ IF ~KnownKey(ctl, pending[tune.i].name)
       THEN /\ ctl' = ctl
            /\ tune' = [tune EXCEPT !.pc = "idle", !.result = "KeyError"]
            /\ pending' = << >>
       ELSE /\ ctl' = [ctl EXCEPT
                         !.parameters = DictSet(ctl.parameters, pending[tune.i].name,
                                                pending[tune.i].value),
                         !.attrs = DictSet(ctl.attrs, pending[tune.i].name,
                                           pending[tune.i].value)]
            /\ IF tune.i = Len(pending)
               THEN /\ tune' = [tune EXCEPT !.pc = "idle", !.result = "ok"]
                    /\ pending' = << >>
               ELSE /\ tune' = [tune EXCEPT !.i = tune.i + 1]
                    /\ pending' = pending
    /\ UNCHANGED <<ctorValid, keys0, last, plantVars, loopVars, profVars>>

\* setParameters: an empty dict passes the validation and the loop has nothing
\* to do
DashReturn ==
    /\ tune.pc = "apply" /\ tune.i > Len(pending)
    /\ tune' = [tune EXCEPT !.pc = "idle", !.result = "ok"]
    /\ pending' = << >>
    /\ UNCHANGED <<ctl, ctorValid, keys0, last, plantVars, loopVars, profVars>>

\* run_closed_loop: computeControlAction(reference, measure, feedforward=0.0),
\* whatever the dashboard thread is doing
TuneCompute ==
    /\ \E r \in RefVals, m \in MeasVals :
          last' = [NoOp EXCEPT !.op = "compute",
                              !.reference = r, !.measure = m, !.feedforward = 0,
                              !.u = computeControlAction(ctl, r, m, 0)]
    /\ tune' = [tune EXCEPT
                  !.torn = /\ tune.pc = "apply"
                           /\ ctl # tune.before
                           /\ ctl # ApplyEntries(tune.before, pending, 1).ctl,
                  !.badPair = BadPair(ctl)]
    /\ UNCHANGED <<ctl, ctorValid, keys0, pending, plantVars, loopVars, profVars>>

TuneNext == DashCall \/ DashValidate \/ DashApply \/ DashReturn \/ TuneCompute

----------------------------------------------------------------------------
(* BaseTCLabSystem, FakeTCLabSystem, TCLabSystem *)

\* longest recorded sequence of plant reads and writes in PlantSpec
MaxHist == 8

Max(a, b) == IF a >= b THEN a ELSE b
Min(a, b) == IF a <= b THEN a ELSE b

\* int(round(a / b)) for a >= 0, b > 0: Python rounds halves to the even integer
RoundDiv(a, b) ==
    LET q == a \div b
        r == a % b
    IN  IF 2 * r < b THEN q
        ELSE IF 2 * r > b THEN q + 1
        ELSE IF q % 2 = 0 THEN q ELSE q + 1

\* [0.0] * n
Zeros(n) == [i \in 1..n |-> 0]

\* constructor arguments of the simulated plants that are modelled
FakeConfigs ==
    { [log_interval |-> 1, realtime_factor |-> 10, Tamb |-> 20,
       K1 |-> 1, tau1 |-> 2, L1 |-> 3, K2 |-> 1, tau2 |-> 0, L2 |-> 0],
      [log_interval |-> 2, realtime_factor |-> 1, Tamb |-> 20,
       K1 |-> 1, tau1 |-> 10, L1 |-> 6, K2 |-> 2, tau2 |-> 4, L2 |-> 3],
      [log_interval |-> 0, realtime_factor |-> 1, Tamb |-> 20,
       K1 |-> 1, tau1 |-> 2, L1 |-> 2, K2 |-> 1, tau2 |-> 0, L2 |-> 1],
      [log_interval |-> 1, realtime_factor |-> 1, Tamb |-> 20,
       K1 |-> 1, tau1 |-> -1, L1 |-> 2, K2 |-> 1, tau2 |-> 2, L2 |-> 0] }

\* dt = self.log_interval if self.log_interval > 0 else 1.0
NominalDt(pl) == IF pl.log_interval > 0 THEN pl.log_interval ELSE 1

\* max(1, int(round(L / dt))) if L > 0 else 1
DelaySamples(L, dt) == IF L > 0 THEN Max(1, RoundDiv(L, dt)) ELSE 1

\* BaseTCLabSystem.__init__ and FakeTCLabSystem.__init__ / _initialize_lab:
\* running flag set, free lock, zero commands, temperatures at ambient,
\* dead-time queues of zeros
FakeTCLabSystem_init(cfg) ==
    LET dt == NominalDt(cfg)
        n_delay1 == DelaySamples(cfg.L1, dt)
        n_delay2 == DelaySamples(cfg.L2, dt)
    IN  [hardware |-> FALSE, cfg |-> cfg,
         running |-> TRUE, lock |-> "free", log_open |-> TRUE, lab_open |-> TRUE,
         u1 |-> 0, u2 |-> 0,
         T1 |-> cfg.Tamb, T2 |-> cfg.Tamb,
         n_delay1 |-> n_delay1, n_delay2 |-> n_delay2,
         u1_queue |-> Zeros(n_delay1), u2_queue |-> Zeros(n_delay2),
         u1_delayed |-> 0, u2_delayed |-> 0,
         Q1 |-> 0, Q2 |-> 0]

\* mutant of EulerStep: the loss term -(T - Tamb) is left out
EulerStep_noLoss(T, Tamb, K, tau, u_delayed, dt) ==
    IF tau > 0 THEN T + (dt * (K * u_delayed)) \div tau ELSE T

\* mutant of EulerStep: a channel with tau <= 0 integrates with tau = 1
EulerStep_tauOne(T, Tamb, K, tau, u_delayed, dt) ==
    IF tau > 0 THEN T + (dt * (-(T - Tamb) + K * u_delayed)) \div tau
    ELSE T + dt * (-(T - Tamb) + K * u_delayed)

\* one explicit Euler step of dT/dt = (-(T - Tamb) + K * u_delayed) / tau;
\* the quotient is floored to an integer
EulerStep(T, Tamb, K, tau, u_delayed, dt) ==
    IF tau > 0 THEN T + (dt * (-(T - Tamb) + K * u_delayed)) \div tau ELSE T

\* mutant of advance_model: the driving term is the element popped from the head
advance_model_popped(pl, dt) ==
    IF dt <= 0 THEN pl
    ELSE LET q1 == Append(Tail(pl.u1_queue), pl.u1)
             q2 == Append(Tail(pl.u2_queue), pl.u2)
             u1_delayed == Head(pl.u1_queue)
             u2_delayed == Head(pl.u2_queue)
         IN  [pl EXCEPT
                !.u1_queue = q1, !.u2_queue = q2,
                !.u1_delayed = u1_delayed, !.u2_delayed = u2_delayed,
                !.T1 = EulerStep(pl.T1, pl.cfg.Tamb, pl.cfg.K1, pl.cfg.tau1, u1_delayed, dt),
                !.T2 = EulerStep(pl.T2, pl.cfg.Tamb, pl.cfg.K2, pl.cfg.tau2, u2_delayed, dt)]

\* mutant of advance_model: the commands are appended and nothing is popped
advance_model_noPop(pl, dt) ==
    [pl EXCEPT !.u1_queue = Append(pl.u1_queue, pl.u1),
               !.u2_queue = Append(pl.u2_queue, pl.u2)]

\* FakeTCLabSystem._advance_model: pop(0), append(self.u), u_delayed = queue[0]
\* of the queue after both, then the Euler step of each channel
advance_model(pl, dt) ==
    IF dt <= 0 THEN pl
    ELSE LET q1 == Append(Tail(pl.u1_queue), pl.u1)
             q2 == Append(Tail(pl.u2_queue), pl.u2)
             u1_delayed == q1[1]
             u2_delayed == q2[1]
         IN  [pl EXCEPT
                !.u1_queue = q1, !.u2_queue = q2,
                !.u1_delayed = u1_delayed, !.u2_delayed = u2_delayed,
                !.T1 = EulerStep(pl.T1, pl.cfg.Tamb, pl.cfg.K1, pl.cfg.tau1, u1_delayed, dt),
                !.T2 = EulerStep(pl.T2, pl.cfg.Tamb, pl.cfg.K2, pl.cfg.tau2, u2_delayed, dt)]

\* mutant of Fake_readProcessVariables: the step is scaled by realtime_factor
Fake_readProcessVariables_scaled(pl) ==
    advance_model(pl, NominalDt(pl.cfg) * pl.cfg.realtime_factor)

\* the body of FakeTCLabSystem.readProcessVariables under the lock
Fake_readProcessVariables(pl) == advance_model(pl, NominalDt(pl.cfg))

\* mutant of Clamp: the lower limit is not applied
Clamp_upperOnly(u) == Min(100, u)

\* max(0, min(100, float(u)))
Clamp(u) == Max(0, Min(100, u))

\* the body of BaseTCLabSystem.writeControlCommands under the lock, simulated
\* plant: _apply_control does nothing, the clamped commands are stored
Fake_writeControlCommands(pl, u1, u2) ==
    [pl EXCEPT !.u1 = Clamp(u1), !.u2 = Clamp(u2)]

\* writeControlCommands: return u1, u2, the clamped locals
writeControlCommands_return(u1, u2) == <<Clamp(u1), Clamp(u2)>>

----------------------------------------------------------------------------
(* PlantSpec: one simulated plant, read and written by one caller in any    *)
(* order (no acquisition thread)                                            *)

\* command pairs handed to writeControlCommands, some outside [0, 100]
WritePairs == {<<0, 0>>, <<60, 30>>, <<130, -5>>}

\* what is recorded of a call: the state it left and the pair it was given
\* (writes) and the pair it returned
Event(op, pl, arg, ret) ==
    [op |-> op, u1 |-> pl.u1, u2 |-> pl.u2,
     u1_delayed |-> pl.u1_delayed, u2_delayed |-> pl.u2_delayed,
     T1 |-> pl.T1, T2 |-> pl.T2, arg |-> arg, ret |-> ret]

PlantInit ==
    /\ \E cfg \in FakeConfigs : plant = FakeTCLabSystem_init(cfg)
    /\ hist = << >>
    /\ ctl = NoController /\ ctorValid = TRUE /\ keys0 = {}
    /\ pending = << >> /\ last = NoOp /\ tune = NoTune
    /\ pcR = "idle" /\ pcB = "idle" /\ clock = 0 /\ maxDur = None
    /\ ref = <<0, 0>> /\ meas = <<0, 0>> /\ cmd = <<0, 0>>
    /\ exc = "none" /\ intr = 0 /\ logArgs = <<0, 0>> /\ obs = NoObs
    /\ csvTimes = {} /\ prof = NoProfile /\ look = NoLookup

\* process.readProcessVariables()
PlantRead ==
    /\ Len(hist) < MaxHist
    /\ plant' = Fake_readProcessVariables(plant)
    /\ hist' = Append(hist, Event("read", plant', <<0, 0>>, <<plant'.T1, plant'.T2>>))
    /\ UNCHANGED <<ctrlVars, loopVars, profVars>>

\* process.writeControlCommands(u1, u2)
PlantWrite ==
    /\ Len(hist) < MaxHist
    /\ \E w \in WritePairs :
          /\ plant' = Fake_writeControlCommands(plant, w[1], w[2])
          /\ hist' = Append(hist, Event("write", plant', w,
                                        writeControlCommands_return(w[1], w[2])))
    /\ UNCHANGED <<ctrlVars, loopVars, profVars>>

PlantNext == PlantRead \/ PlantWrite

----------------------------------------------------------------------------
(* StepSpec: the step response of the simulated plant, K = 1, tau = 10,     *)
(* L = 0, Tamb = 20, under a constant command and any number of reads       *)

\* temperature units per degree: with Resolution = 1000 the temperatures of
\* this specification are thousandths of a degree
Resolution == 1000

\* the constant command, in percent
StepCommand == 20

\* the plant of the step response, one per step length dt = log_interval <= tau;
\* Tamb in temperature units, K1 in temperature units per percent
StepConfigs ==
    { [log_interval |-> dt, realtime_factor |-> 1, Tamb |-> 20 * Resolution,
       K1 |-> 1 * Resolution, tau1 |-> 10, L1 |-> 0,
       K2 |-> 1 * Resolution, tau2 |-> 0, L2 |-> 0] : dt \in {1, 2, 3, 5, 10} }

\* the temperature the step response settles at: Tamb + K * u
StepTarget == 20 * Resolution + 1 * Resolution * StepCommand

StepInit ==
    /\ \E cfg \in StepConfigs : plant = FakeTCLabSystem_init(cfg)
    /\ hist = << >>
    /\ ctl = NoController /\ ctorValid = TRUE /\ keys0 = {}
    /\ pending = << >> /\ last = NoOp /\ tune = NoTune
    /\ pcR = "idle" /\ pcB = "idle" /\ clock = 0 /\ maxDur = None
    /\ ref = <<0, 0>> /\ meas = <<0, 0>> /\ cmd = <<0, 0>>
    /\ exc = "none" /\ intr = 0 /\ logArgs = <<0, 0>> /\ obs = NoObs
    /\ csvTimes = {} /\ prof = NoProfile /\ look = NoLookup

\* process.writeControlCommands(20, 0)
StepWrite ==
    /\ plant' = Fake_writeControlCommands(plant, StepCommand, 0)
    /\ UNCHANGED <<hist, ctrlVars, loopVars, profVars>>

\* process.readProcessVariables()
StepRead ==
    /\ plant' = Fake_readProcessVariables(plant)
    /\ UNCHANGED <<hist, ctrlVars, loopVars, profVars>>

StepNext == StepWrite \/ StepRead

----------------------------------------------------------------------------
(* SetpointProfile *)

\* list.sort(key=lambda s: s.t) is stable: a sample goes after the samples
\* whose time is not greater
RECURSIVE InsertByTime(_, _)
InsertByTime(sorted, s) ==
    IF sorted = << >> THEN <<s>>
    ELSE IF Head(sorted).t <= s.t THEN <<Head(sorted)>> \o InsertByTime(Tail(sorted), s)
    ELSE <<s>> \o sorted

RECURSIVE SortByTime(_)
SortByTime(rows) ==
    IF rows = << >> THEN << >>
    ELSE InsertByTime(SortByTime(SubSeq(rows, 1, Len(rows) - 1)), rows[Len(rows)])

\* mutant of SetpointProfile_init: the rows are kept in file order
SetpointProfile_init_unsorted(rows, interpolate) ==
    LET samples == rows
    IN  IF samples = << >> THEN [valid |-> FALSE]
        ELSE IF samples[1].t # 0 THEN [valid |-> FALSE]
        ELSE IF samples[Len(samples)].t <= 0 THEN [valid |-> FALSE]
        ELSE [valid |-> TRUE, samples |-> samples,
              t_end |-> samples[Len(samples)].t, interpolate |-> interpolate]

\* SetpointProfile.__init__: the rows sorted by time; no profile when there is
\* no row, the first time is not 0 or the last time is not positive
SetpointProfile_init(rows, interpolate) ==
    LET samples == SortByTime(rows)
    IN  IF samples = << >> THEN [valid |-> FALSE]
        ELSE IF samples[1].t # 0 THEN [valid |-> FALSE]
        ELSE IF samples[Len(samples)].t <= 0 THEN [valid |-> FALSE]
        ELSE [valid |-> TRUE, samples |-> samples,
              t_end |-> samples[Len(samples)].t, interpolate |-> interpolate]

\* mutant of ScanSamples: zero-order hold returns the sample reached, not prev
RECURSIVE ScanSamples_returnsNext(_, _, _)
ScanSamples_returnsNext(p, t_mod, i) ==
    IF i > Len(p.samples)
    THEN <<p.samples[Len(p.samples)].T1, p.samples[Len(p.samples)].T2>>
    ELSE LET s == p.samples[i]
             prev == p.samples[i - 1]
             dt == s.t - prev.t
         IN  IF t_mod <= s.t
             THEN IF ~p.interpolate THEN <<s.T1, s.T2>>
                  ELSE IF dt <= 0 THEN <<prev.T1, prev.T2>>
                  ELSE <<prev.T1 + ((t_mod - prev.t) * (s.T1 - prev.T1)) \div dt,
                         prev.T2 + ((t_mod - prev.t) * (s.T2 - prev.T2)) \div dt>>
             ELSE ScanSamples_returnsNext(p, t_mod, i + 1)

\* mutant of ScanSamples: the interpolation weight alpha is left out
RECURSIVE ScanSamples_noAlpha(_, _, _)
ScanSamples_noAlpha(p, t_mod, i) ==
    IF i > Len(p.samples)
    THEN <<p.samples[Len(p.samples)].T1, p.samples[Len(p.samples)].T2>>
    ELSE LET s == p.samples[i]
             prev == p.samples[i - 1]
             dt == s.t - prev.t
         IN  IF t_mod <= s.t
             THEN IF ~p.interpolate THEN <<prev.T1, prev.T2>>
                  ELSE IF dt <= 0 THEN <<prev.T1, prev.T2>>
                  ELSE <<prev.T1 + (s.T1 - prev.T1), prev.T2 + (s.T2 - prev.T2)>>
             ELSE ScanSamples_noAlpha(p, t_mod, i + 1)

\* the for loop of get_setpoints from samples[i] on, prev being samples[i-1]
RECURSIVE ScanSamples(_, _, _)
ScanSamples(p, t_mod, i) ==
    IF i > Len(p.samples)
    THEN <<p.samples[Len(p.samples)].T1, p.samples[Len(p.samples)].T2>>
    ELSE LET s == p.samples[i]
             prev == p.samples[i - 1]
             dt == s.t - prev.t
         IN  IF t_mod <= s.t
             THEN IF ~p.interpolate THEN <<prev.T1, prev.T2>>
                  ELSE IF dt <= 0 THEN <<prev.T1, prev.T2>>
                  ELSE <<prev.T1 + ((t_mod - prev.t) * (s.T1 - prev.T1)) \div dt,
                         prev.T2 + ((t_mod - prev.t) * (s.T2 - prev.T2)) \div dt>>
             ELSE ScanSamples(p, t_mod, i + 1)

\* mutant of get_setpoints: the time is not reduced modulo t_end
get_setpoints_noWrap(p, t) ==
    LET t0 == IF t < 0 THEN 0 ELSE t
    IN  IF t0 <= p.samples[1].t
        THEN <<p.samples[1].T1, p.samples[1].T2>>
        ELSE ScanSamples(p, t0, 2)

\* mutant of get_setpoints: a negative time is not raised to 0
get_setpoints_noClamp(p, t) ==
    LET t_mod == t % p.t_end
    IN  IF t_mod <= p.samples[1].t
        THEN <<p.samples[1].T1, p.samples[1].T2>>
        ELSE ScanSamples(p, t_mod, 2)

\* SetpointProfile.get_setpoints
get_setpoints(p, t) ==
    LET t0 == IF t < 0 THEN 0 ELSE t
        t_mod == t0 % p.t_end
    IN  IF t_mod <= p.samples[1].t
        THEN <<p.samples[1].T1, p.samples[1].T2>>
        ELSE ScanSamples(p, t_mod, 2)

----------------------------------------------------------------------------
(* The closed loop: main() of example_proportional.py with run_closed_loop,   *)
(* the plant's acquisition thread _run, and the keyboard interrupt            *)

\* SAMPLING_PERIOD, in seconds
SAMPLING_PERIOD == 1

\* process time after which the runner starts no further tick in the model
MaxTime == 3

\* keyboard interrupts delivered in one run, at most
MaxInterrupts == 2

\* value at which the count of model steps since the last write saturates
MaxSteps == 3

\* max_duration values: the default None and a duration of two periods
MaxDurations == {None, 2}

\* temperatures the board may report
HwTemps == {20, 40}

\* the simulated plant of the loop: dead time of two samples on channel 1
LoopConfig ==
    [log_interval |-> 1, realtime_factor |-> 10, Tamb |-> 20,
     K1 |-> 1, tau1 |-> 1, L1 |-> 2, K2 |-> 1, tau2 |-> 0, L2 |-> 0]

\* BaseTCLabSystem.__init__ and TCLabSystem.__init__ / _initialize_lab: the
\* hardware plant has no model state; Q1, Q2 are the heater outputs of the board
TCLabSystem_init ==
    [hardware |-> TRUE,
     cfg |-> [log_interval |-> 1, realtime_factor |-> 1, Tamb |-> 20,
              K1 |-> 0, tau1 |-> 0, L1 |-> 0, K2 |-> 0, tau2 |-> 0, L2 |-> 0],
     running |-> TRUE, lock |-> "free", log_open |-> TRUE, lab_open |-> TRUE,
     u1 |-> 0, u2 |-> 0, T1 |-> 20, T2 |-> 20,
     n_delay1 |-> 0, n_delay2 |-> 0, u1_queue |-> << >>, u2_queue |-> << >>,
     u1_delayed |-> 0, u2_delayed |-> 0, Q1 |-> 0, Q2 |-> 0]

\* build_controllers: PController with Kp = 2 retuned to Kp = 3, and a
\* ManualController with manual_control_action = 20, both bounded to [0, 100]
controller1 ==
    setParameters(PController_init(SAMPLING_PERIOD, 2, 0, 100),
                  <<[name |-> "Kp", value |-> 3]>>).ctl
controller2 == ManualController_init(SAMPLING_PERIOD, 0, 100, 20)

\* the setpoint profile of the run: three rows, zero-order hold
setpoint_profile ==
    SetpointProfile_init(<<[t |-> 0, T1 |-> 30, T2 |-> 30],
                           [t |-> 1, T1 |-> 50, T2 |-> 40],
                           [t |-> 2, T1 |-> 30, T2 |-> 30]>>, FALSE)

\* the outcomes of the body of readProcessVariables under the lock: the
\* simulated plant advances its model and returns T1, T2; the board returns
\* what it measures or the serial access raises
readProcessVariables_outcomes(pl) ==
    IF pl.hardware
    THEN {[pl |-> pl, t1 |-> a, t2 |-> b, raised |-> FALSE] : a \in HwTemps, b \in HwTemps}
            \cup {[pl |-> pl, t1 |-> 0, t2 |-> 0, raised |-> TRUE]}
    ELSE LET q == Fake_readProcessVariables(pl)
         IN  {[pl |-> q, t1 |-> q.T1, t2 |-> q.T2, raised |-> FALSE]}

\* the outcomes of the body of writeControlCommands under the lock: on the
\* board lab.Q1 or lab.Q2 may raise, and then u1, u2 are not stored
writeControlCommands_outcomes(pl, u1, u2) ==
    IF pl.hardware
    THEN {[pl |-> [pl EXCEPT !.Q1 = Clamp(u1), !.Q2 = Clamp(u2),
                             !.u1 = Clamp(u1), !.u2 = Clamp(u2)], raised |-> FALSE],
          [pl |-> pl, raised |-> TRUE],
          [pl |-> [pl EXCEPT !.Q1 = Clamp(u1)], raised |-> TRUE]}
    ELSE {[pl |-> Fake_writeControlCommands(pl, u1, u2), raised |-> FALSE]}

\* the lock is released by whoever leaves a with-block, normally or not
Released(pl) == [pl EXCEPT !.lock = "free"]

\* one more model step since the last controller write
Stepped(o, pl) ==
    IF pl.hardware THEN o ELSE [o EXCEPT !.steps = Min(o.steps + 1, MaxSteps)]

\* positions of the main thread inside the try block, inside a tick after the
\* loop condition, between the plant read and the plant write, and inside the
\* finally block
TryPcs == {"top", "lookup", "read", "read_locked", "compute1", "compute2",
           "write", "write_locked", "sleep", "emit"}
TickPcs == TryPcs \ {"top"}
MidTickPcs == {"compute1", "compute2", "write", "write_locked"}
FinallyPcs == {"fin_write", "fin_write_locked", "stop_flag", "stop_join", "stop_close"}
ExitPcs == {"returned", "raised"}

\* an exception other than KeyboardInterrupt raised in the try block: no
\* handler matches, the finally block runs with the exception in flight
RaiseInTry(kind) ==
    /\ pcR' = "fin_write"
    /\ exc' = kind
    /\ obs' = IF obs.trigger = "none" THEN [obs EXCEPT !.trigger = "exception"] ELSE obs

LoopInit ==
    /\ plant \in {FakeTCLabSystem_init(LoopConfig), TCLabSystem_init}
    /\ maxDur \in MaxDurations
    /\ pcR = "init_read" /\ pcB = "check" /\ clock = 0
    /\ ref = <<0, 0>> /\ meas = <<0, 0>> /\ cmd = <<0, 0>>
    /\ exc = "none" /\ intr = 0 /\ logArgs = <<0, 0>> /\ obs = NoObs
    /\ csvTimes = {} /\ prof = NoProfile /\ look = NoLookup
    /\ hist = << >>
    /\ ctl = NoController /\ ctorValid = TRUE /\ keys0 = {}
    /\ pending = << >> /\ last = NoOp /\ tune = NoTune

\* init_controllers: process.readProcessVariables() takes the lock
InitReadAcquire ==
    /\ pcR = "init_read" /\ plant.lock = "free"
    /\ plant' = [plant EXCEPT !.lock = "main"]
    /\ pcR' = "init_read_locked"
    /\ UNCHANGED <<ctrlVars, profVars, hist, pcB, clock, maxDur, logArgs, ref, meas, cmd, exc, intr, obs>>

\* init_controllers: the read; a failed read leaves main() before any
\* controller is started and before the try block is entered
InitRead ==
    /\ pcR = "init_read_locked"
    /\ \E r \in readProcessVariables_outcomes(plant) :
          /\ plant' = Released(r.pl)
          /\ IF r.raised
             THEN pcR' = "raised" /\ exc' = "IOError" /\ meas' = meas /\ obs' = obs
             ELSE /\ pcR' = "init_start1" /\ exc' = exc
                  /\ meas' = <<r.t1, r.t2>>
                  /\ obs' = [Stepped(obs, plant) EXCEPT !.initReads = @ + 1]
    /\ UNCHANGED <<ctrlVars, profVars, hist, pcB, clock, maxDur, logArgs, ref, cmd, intr>>

\* init_controllers: controllers["controller1"].starting(20.0, measure1, 0.0, 0.0)
InitStart1 ==
    /\ pcR = "init_start1"
    /\ starting(controller1, 20, meas[1], 0, 0) = controller1
    /\ obs' = [obs EXCEPT !.starts[1] = @ + 1]
    /\ pcR' = "init_start2"
    /\ UNCHANGED <<ctrlVars, profVars, plantVars, pcB, clock, maxDur, logArgs, ref, meas, cmd, exc, intr>>

\* mutant of InitStart2: the second controller is not started
InitStart2_skipped ==
    /\ pcR = "init_start2"
    /\ pcR' = "top"
    /\ UNCHANGED <<ctrlVars, profVars, plantVars, pcB, clock, maxDur, logArgs, ref, meas, cmd, exc, intr, obs>>

\* init_controllers: controllers["controller2"].starting(20.0, measure2, 0.0, 0.0);
\* then, in run_closed_loop, the dashboard and t_init
InitStart2 ==
    /\ pcR = "init_start2"
    /\ starting(controller2, 20, meas[2], 0, 0) = controller2
    /\ obs' = [obs EXCEPT !.starts[2] = @ + 1]
    /\ pcR' = "top"
    /\ UNCHANGED <<ctrlVars, profVars, plantVars, pcB, clock, maxDur, logArgs, ref, meas, cmd, exc, intr>>

\* mutant of LoopTop: the loop ends only when t_proc > max_duration
LoopTop_strict ==
    /\ pcR = "top"
    /\ IF maxDur # None /\ clock > maxDur
       THEN /\ pcR' = "fin_write"
            /\ obs' = [obs EXCEPT !.trigger = "duration"]
       ELSE /\ clock < MaxTime
            /\ pcR' = "lookup"
            /\ obs' = obs
    /\ UNCHANGED <<ctrlVars, profVars, plantVars, pcB, clock, maxDur, logArgs, ref, meas, cmd, exc, intr>>

\* t_proc = (now - t_init) * real_time_factor and the max_duration test
LoopTop ==
    /\ pcR = "top"
    /\ IF maxDur # None /\ clock >= maxDur
       THEN /\ pcR' = "fin_write"
            /\ obs' = [obs EXCEPT !.trigger = "duration"]
       ELSE /\ clock < MaxTime
            /\ pcR' = "lookup"
            /\ obs' = obs
    /\ UNCHANGED <<ctrlVars, profVars, plantVars, pcB, clock, maxDur, logArgs, ref, meas, cmd, exc, intr>>

\* ref1, ref2 = setpoint_profile.get_setpoints(t_proc)
Lookup ==
    /\ pcR = "lookup"
    /\ ref' = get_setpoints(setpoint_profile, clock)
    /\ pcR' = "read"
    /\ UNCHANGED <<ctrlVars, profVars, plantVars, pcB, clock, maxDur, logArgs, meas, cmd, exc, intr, obs>>

\* process.readProcessVariables() takes the lock
ReadAcquire ==
    /\ pcR = "read" /\ plant.lock = "free"
    /\ plant' = [plant EXCEPT !.lock = "main"]
    /\ pcR' = "read_locked"
    /\ UNCHANGED <<ctrlVars, profVars, hist, pcB, clock, maxDur, logArgs, ref, meas, cmd, exc, intr, obs>>

\* the tick's read
Read ==
    /\ pcR = "read_locked"
    /\ \E r \in readProcessVariables_outcomes(plant) :
          /\ plant' = Released(r.pl)
          /\ IF r.raised
             THEN RaiseInTry("IOError") /\ meas' = meas
             ELSE /\ pcR' = "compute1" /\ exc' = exc
                  /\ meas' = <<r.t1, r.t2>>
                  /\ obs' = Stepped(obs, plant)
    /\ UNCHANGED <<ctrlVars, profVars, hist, pcB, clock, maxDur, logArgs, ref, cmd, intr>>

\* mutant of Compute1: u1 is computed from the other channel's reference and
\* measurement
Compute1_fromChannel2 ==
    /\ pcR = "compute1"
    /\ cmd' = <<computeControlAction(controller1, ref[2], meas[2], 0), cmd[2]>>
    /\ pcR' = "compute2"
    /\ obs' = [obs EXCEPT !.computes[1] = TRUE]
    /\ UNCHANGED <<ctrlVars, profVars, plantVars, pcB, clock, maxDur, logArgs, ref, meas, exc, intr>>

\* u1 = controllers["controller1"].computeControlAction(ref1, measure1, 0.0)
Compute1 ==
    /\ pcR = "compute1"
    /\ cmd' = <<computeControlAction(controller1, ref[1], meas[1], 0), cmd[2]>>
    /\ pcR' = "compute2"
    /\ obs' = [obs EXCEPT !.computes[1] = TRUE]
    /\ UNCHANGED <<ctrlVars, profVars, plantVars, pcB, clock, maxDur, logArgs, ref, meas, exc, intr>>

\* u2 = controllers["controller2"].computeControlAction(ref2, measure2, 0.0)
Compute2 ==
    /\ pcR = "compute2"
    /\ cmd' = <<cmd[1], computeControlAction(controller2, ref[2], meas[2], 0)>>
    /\ pcR' = "write"
    /\ obs' = [obs EXCEPT !.computes[2] = TRUE]
    /\ UNCHANGED <<ctrlVars, profVars, plantVars, pcB, clock, maxDur, logArgs, ref, meas, exc, intr>>

\* process.writeControlCommands(u1=u1, u2=u2) takes the lock
\* mutant of WriteAcquire: self.u1 is stored before the lock is taken
WriteAcquire_storesUnlocked ==
    /\ pcR = "write"
    /\ plant' = [plant EXCEPT !.u1 = Clamp(cmd[1])]
    /\ pcR' = "write_locked"
    /\ UNCHANGED <<ctrlVars, profVars, hist, pcB, clock, maxDur, logArgs, ref, meas, cmd, exc, intr, obs>>

\* process.writeControlCommands(u1=u1, u2=u2) takes the lock
WriteAcquire ==
    /\ pcR = "write" /\ plant.lock = "free"
    /\ plant' = [plant EXCEPT !.lock = "main"]
    /\ pcR' = "write_locked"
    /\ UNCHANGED <<ctrlVars, profVars, hist, pcB, clock, maxDur, logArgs, ref, meas, cmd, exc, intr, obs>>

\* the tick's write of the controller-computed commands
Write ==
    /\ pcR = "write_locked"
    /\ \E w \in writeControlCommands_outcomes(plant, cmd[1], cmd[2]) :
          /\ plant' = Released(w.pl)
          /\ IF w.raised
             THEN RaiseInTry("IOError")
             ELSE /\ pcR' = "sleep" /\ exc' = exc
                  /\ obs' = [obs EXCEPT !.hasWritten = TRUE, !.steps = 0,
                                        !.ctlWriteAfterZero = obs.zeroDone,
                                        !.written = <<Clamp(cmd[1]), Clamp(cmd[2])>>]
    /\ UNCHANGED <<ctrlVars, profVars, hist, pcB, clock, maxDur, logArgs, ref, meas, cmd, intr>>

\* time.sleep(SAMPLING_PERIOD / real_time_factor): process time moves on by
\* one sampling period
Sleep ==
    /\ pcR = "sleep"
    /\ clock' = clock + SAMPLING_PERIOD
    /\ pcR' = "emit"
    /\ UNCHANGED <<ctrlVars, profVars, plantVars, pcB, maxDur, logArgs, ref, meas, cmd, exc, intr, obs>>

\* dashboard.get_values(...), then back to the loop condition
Emit ==
    /\ pcR = "emit"
    /\ pcR' = "top"
    /\ UNCHANGED <<ctrlVars, profVars, plantVars, pcB, clock, maxDur, logArgs, ref, meas, cmd, exc, intr, obs>>

\* mutant of ExceptHandler: the handler resumes the loop
ExceptHandler_resumes ==
    /\ pcR = "except"
    /\ pcR' = "top"
    /\ exc' = "none"
    /\ UNCHANGED <<ctrlVars, profVars, plantVars, pcB, clock, maxDur, logArgs, ref, meas, cmd, intr, obs>>

\* except KeyboardInterrupt: the message is printed, the exception is handled,
\* the finally block follows
ExceptHandler ==
    /\ pcR = "except"
    /\ pcR' = "fin_write"
    /\ exc' = "none"
    /\ UNCHANGED <<ctrlVars, profVars, plantVars, pcB, clock, maxDur, logArgs, ref, meas, cmd, intr, obs>>

\* finally: process.writeControlCommands(u1=0.0, u2=0.0) takes the lock
ZeroWriteAcquire ==
    /\ pcR = "fin_write" /\ plant.lock = "free"
    /\ plant' = [plant EXCEPT !.lock = "main"]
    /\ pcR' = "fin_write_locked"
    /\ UNCHANGED <<ctrlVars, profVars, hist, pcB, clock, maxDur, logArgs, ref, meas, cmd, exc, intr, obs>>

\* the zero write; when it raises, the exception leaves the finally block and
\* process.stop() is not reached
ZeroWrite ==
    /\ pcR = "fin_write_locked"
    /\ \E w \in writeControlCommands_outcomes(plant, 0, 0) :
          /\ plant' = Released(w.pl)
          /\ IF w.raised
             THEN pcR' = "raised" /\ exc' = "IOError" /\ obs' = obs
             ELSE /\ pcR' = "stop_flag" /\ exc' = exc
                  /\ obs' = [obs EXCEPT !.zeroDone = TRUE, !.written = <<0, 0>>]
    /\ UNCHANGED <<ctrlVars, profVars, hist, pcB, clock, maxDur, logArgs, ref, meas, cmd, intr>>

\* process.stop(): self.running = False
StopFlag ==
    /\ pcR = "stop_flag"
    /\ plant' = [plant EXCEPT !.running = FALSE]
    /\ pcR' = "stop_join"
    /\ obs' = [obs EXCEPT !.stopCalled = TRUE, !.stopBeforeZero = ~obs.zeroDone,
                          !.stops = @ + 1]
    /\ UNCHANGED <<ctrlVars, profVars, hist, pcB, clock, maxDur, logArgs, ref, meas, cmd, exc, intr>>

\* mutant of StopJoin: stop() does not wait for the acquisition thread
StopJoin_noWait ==
    /\ pcR = "stop_join"
    /\ pcR' = "stop_close"
    /\ UNCHANGED <<ctrlVars, profVars, plantVars, pcB, clock, maxDur, logArgs, ref, meas, cmd, exc, intr, obs>>

\* process.stop(): self.thread.join() returns once the thread has ended
StopJoin ==
    /\ pcR = "stop_join" /\ pcB = "dead"
    /\ pcR' = "stop_close"
    /\ UNCHANGED <<ctrlVars, profVars, plantVars, pcB, clock, maxDur, logArgs, ref, meas, cmd, exc, intr, obs>>

\* process.stop(): the log file is closed, then _close_lab(), which may raise
\* on the board; then the last print, and run_closed_loop returns or re-raises
\* the exception in flight
StopClose ==
    /\ pcR = "stop_close"
    /\ \/ /\ plant' = [plant EXCEPT !.log_open = FALSE, !.lab_open = FALSE]
          /\ pcR' = IF exc = "none" THEN "returned" ELSE "raised"
          /\ exc' = exc
          /\ obs' = [obs EXCEPT !.finallyDone = TRUE]
       \/ /\ plant.hardware
          /\ plant' = [plant EXCEPT !.log_open = FALSE]
          /\ pcR' = "raised"
          /\ exc' = "IOError"
          /\ obs' = obs
    /\ UNCHANGED <<ctrlVars, profVars, hist, pcB, clock, maxDur, logArgs, ref, meas, cmd, intr>>

\* stop() calls made on one plant in StopSpec, at most
MaxStops == 2

\* process.stop() is called again after a stop() that returned
StopAgain ==
    /\ pcR = "returned" /\ obs.stops < MaxStops
    /\ pcR' = "stop_flag"
    /\ UNCHANGED <<ctrlVars, profVars, plantVars, pcB, clock, maxDur, logArgs, ref, meas, cmd, exc, intr, obs>>

\* Ctrl-C: KeyboardInterrupt is raised in the main thread wherever it is. In
\* the try block the handler is entered; in the handler the finally block runs
\* with the exception in flight; in the finally block the exception leaves
\* run_closed_loop. A lock held by the main thread is released on the way.
KeyboardInterrupt ==
    /\ intr < MaxInterrupts
    /\ pcR \in TryPcs \cup {"except"} \cup FinallyPcs
    /\ intr' = intr + 1
    /\ exc' = "KeyboardInterrupt"
    /\ pcR' = IF pcR \in TryPcs THEN "except"
              ELSE IF pcR = "except" THEN "fin_write"
              ELSE "raised"
    /\ plant' = IF plant.lock = "main" THEN Released(plant) ELSE plant
    /\ obs' = [obs EXCEPT !.trigger = IF @ = "none" THEN "interrupt" ELSE @,
                          !.intrAt = IF @ = "none" THEN pcR ELSE @]
    /\ UNCHANGED <<ctrlVars, profVars, hist, pcB, clock, maxDur, logArgs, ref, meas, cmd>>

\* _run: while self.running
BgCheck ==
    /\ pcB = "check"
    /\ pcB' = IF plant.running THEN "read" ELSE "dead"
    /\ UNCHANGED <<ctrlVars, profVars, plantVars, pcR, clock, maxDur, logArgs, ref, meas, cmd, exc, intr, obs>>

\* _run: self.readProcessVariables() takes the lock
BgReadAcquire ==
    /\ pcB = "read" /\ plant.lock = "free"
    /\ plant' = [plant EXCEPT !.lock = "bg"]
    /\ pcB' = "read_locked"
    /\ UNCHANGED <<ctrlVars, profVars, hist, pcR, clock, maxDur, logArgs, ref, meas, cmd, exc, intr, obs>>

\* _run: the read of the acquisition thread; an exception ends the thread
BgRead ==
    /\ pcB = "read_locked"
    /\ \E r \in readProcessVariables_outcomes(plant) :
          /\ plant' = Released(r.pl)
          /\ IF r.raised
             THEN pcB' = "dead" /\ obs' = obs
             ELSE pcB' = "buf" /\ obs' = Stepped(obs, plant)
    /\ UNCHANGED <<ctrlVars, profVars, hist, pcR, clock, maxDur, logArgs, ref, meas, cmd, exc, intr>>

\* _run: with self.lock, the plot buffers are appended to
BgBufAcquire ==
    /\ pcB = "buf" /\ plant.lock = "free"
    /\ plant' = [plant EXCEPT !.lock = "bg"]
    /\ pcB' = "buf_locked"
    /\ UNCHANGED <<ctrlVars, profVars, hist, pcR, clock, maxDur, logArgs, ref, meas, cmd, exc, intr, obs>>

BgBuf ==
    /\ pcB = "buf_locked"
    /\ plant' = Released(plant)
    /\ pcB' = "log"
    /\ UNCHANGED <<ctrlVars, profVars, hist, pcR, clock, maxDur, logArgs, ref, meas, cmd, exc, intr, obs>>

\* _run: self._log_data(t1, t2, self.u1, self.u2): the arguments self.u1 and
\* self.u2 are evaluated one after the other before the call, outside any
\* with-block
BgLogArgU1 ==
    /\ pcB = "log"
    /\ logArgs' = <<plant.u1, logArgs[2]>>
    /\ pcB' = "log_u2"
    /\ UNCHANGED <<ctrlVars, profVars, plantVars, pcR, clock, maxDur, ref, meas, cmd, exc, intr, obs>>

BgLogArgU2 ==
    /\ pcB = "log_u2"
    /\ logArgs' = <<logArgs[1], plant.u2>>
    /\ pcB' = "log_call"
    /\ UNCHANGED <<ctrlVars, profVars, plantVars, pcR, clock, maxDur, ref, meas, cmd, exc, intr, obs>>

\* _log_data takes the lock
BgLogAcquire ==
    /\ pcB = "log_call" /\ plant.lock = "free"
    /\ plant' = [plant EXCEPT !.lock = "bg"]
    /\ pcB' = "log_locked"
    /\ UNCHANGED <<ctrlVars, profVars, hist, pcR, clock, maxDur, logArgs, ref, meas, cmd, exc, intr, obs>>

\* mutant of BgLog: the thread goes to its sleep inside the with-block
BgLog_sleepsLocked ==
    /\ pcB = "log_locked"
    /\ pcB' = "sleep"
    /\ logArgs' = <<0, 0>>
    /\ UNCHANGED <<ctrlVars, profVars, plantVars, pcR, clock, maxDur, ref, meas, cmd, exc, intr, obs>>

\* _log_data: one row is written and flushed
BgLog ==
    /\ pcB = "log_locked"
    /\ plant' = Released(plant)
    /\ pcB' = "sleep"
    /\ logArgs' = <<0, 0>>
    /\ UNCHANGED <<ctrlVars, profVars, hist, pcR, clock, maxDur, ref, meas, cmd, exc, intr, obs>>

\* _run: time.sleep(effective_sleep), then the loop condition again
BgSleep ==
    /\ pcB = "sleep"
    /\ pcB' = "check"
    /\ UNCHANGED <<ctrlVars, profVars, plantVars, pcR, clock, maxDur, logArgs, ref, meas, cmd, exc, intr, obs>>

\* the steps of the main thread and of the acquisition thread
RunnerNext ==
    \/ InitReadAcquire \/ InitRead \/ InitStart1 \/ InitStart2 \/ LoopTop \/ Lookup \/ ReadAcquire \/ Read
    \/ Compute1 \/ Compute2 \/ WriteAcquire \/ Write \/ Sleep \/ Emit
    \/ ExceptHandler \/ ZeroWriteAcquire \/ ZeroWrite
    \/ StopFlag \/ StopJoin \/ StopClose

BgNext ==
    \/ BgCheck \/ BgReadAcquire \/ BgRead \/ BgBufAcquire \/ BgBuf
    \/ BgLogArgU1 \/ BgLogArgU2 \/ BgLogAcquire \/ BgLog \/ BgSleep

Next ==
    \/ InitReadAcquire \/ InitRead \/ InitStart1 \/ InitStart2 \/ LoopTop \/ Lookup \/ ReadAcquire \/ Read
    \/ Compute1 \/ Compute2 \/ WriteAcquire \/ Write \/ Sleep \/ Emit
    \/ ExceptHandler \/ ZeroWriteAcquire \/ ZeroWrite
    \/ StopFlag \/ StopJoin \/ StopClose
    \/ KeyboardInterrupt
    \/ BgCheck \/ BgReadAcquire \/ BgRead \/ BgBufAcquire \/ BgBuf
    \/ BgLogArgU1 \/ BgLogArgU2 \/ BgLogAcquire \/ BgLog \/ BgSleep

----------------------------------------------------------------------------
(* ClosedLoopSpec: the ticks of run_closed_loop (read, compute, write, sleep) *)
(* with a proportional controller on the simulated plant K = 1, tau = 5,      *)
(* L = 0, one model step per tick. Temperatures and commands are counted in   *)
(* 1 / Resolution of a degree and of a percent.                               *)

\* simulated seconds a closed-loop run lasts, at most
MaxSimTime == 60

\* the constant reference of the run, in degrees, and the gain of the controller
ClReference == 50
ClKp == 3

\* ambient temperatures of the plants of the run, in degrees: 23 is the default
\* of FakeTCLabSystem
ClAmbients == {0, 20, 23}

\* max(0, min(100, float(u))) on a command counted in 1 / Resolution percent
ClampFine(u) == Max(0, Min(100 * Resolution, u))

\* the body of writeControlCommands under the lock, simulated plant, commands
\* in 1 / Resolution percent
Fine_writeControlCommands(pl, u1, u2) ==
    [pl EXCEPT !.u1 = ClampFine(u1), !.u2 = ClampFine(u2)]

ClosedLoopInit ==
    /\ \E Tamb \in ClAmbients :
          plant = FakeTCLabSystem_init(
                      [log_interval |-> 1, realtime_factor |-> 10,
                       Tamb |-> Tamb * Resolution,
                       K1 |-> 1, tau1 |-> 5, L1 |-> 0, K2 |-> 1, tau2 |-> 0, L2 |-> 0])
    /\ ctl = PController_init(SAMPLING_PERIOD, ClKp, 0, 100 * Resolution)
    /\ ctorValid = TRUE /\ keys0 = {} /\ pending = << >> /\ last = NoOp /\ tune = NoTune
    /\ hist = << >>
    /\ pcR = "cl_read" /\ pcB = "idle" /\ clock = 0 /\ maxDur = None
    /\ ref = <<ClReference * Resolution, ClReference * Resolution>>
    /\ meas = <<0, 0>> /\ cmd = <<0, 0>>
    /\ exc = "none" /\ intr = 0 /\ logArgs = <<0, 0>> /\ obs = NoObs
    /\ csvTimes = {} /\ prof = NoProfile /\ look = NoLookup

\* measure1, measure2 = process.readProcessVariables()
ClRead ==
    /\ pcR = "cl_read" /\ clock < MaxSimTime
    /\ plant' = Fake_readProcessVariables(plant)
    /\ meas' = <<plant'.T1, plant'.T2>>
    /\ pcR' = "cl_compute"
    /\ UNCHANGED <<ctrlVars, profVars, hist, pcB, clock, maxDur, logArgs, ref, cmd, exc, intr, obs>>

\* u1 = controllers["controller1"].computeControlAction(ref1, measure1, 0.0)
ClCompute ==
    /\ pcR = "cl_compute"
    /\ cmd' = <<computeControlAction(ctl, ref[1], meas[1], 0), 0>>
    /\ pcR' = "cl_write"
    /\ UNCHANGED <<ctrlVars, profVars, plantVars, pcB, clock, maxDur, logArgs, ref, meas, exc, intr, obs>>

\* process.writeControlCommands(u1, u2), then the sleep of one sampling period
ClWrite ==
    /\ pcR = "cl_write"
    /\ plant' = Fine_writeControlCommands(plant, cmd[1], cmd[2])
    /\ clock' = clock + SAMPLING_PERIOD
    /\ pcR' = "cl_read"
    /\ UNCHANGED <<ctrlVars, profVars, hist, pcB, maxDur, logArgs, ref, meas, cmd, exc, intr, obs>>

ClosedLoopNext == ClRead \/ ClCompute \/ ClWrite

----------------------------------------------------------------------------
(* StopSpec: a plant with its acquisition thread running, stopped by its    *)
(* owner and stopped again                                                  *)

StopInit ==
    /\ plant \in {FakeTCLabSystem_init(cfg) : cfg \in FakeConfigs \cup {LoopConfig}}
                    \cup {TCLabSystem_init}
    /\ pcR = "stop_flag" /\ pcB = "check" /\ clock = 0 /\ maxDur = None
    /\ ref = <<0, 0>> /\ meas = <<0, 0>> /\ cmd = <<0, 0>>
    /\ exc = "none" /\ intr = 0 /\ logArgs = <<0, 0>> /\ obs = NoObs
    /\ csvTimes = {} /\ prof = NoProfile /\ look = NoLookup
    /\ hist = << >>
    /\ ctl = NoController /\ ctorValid = TRUE /\ keys0 = {}
    /\ pending = << >> /\ last = NoOp /\ tune = NoTune

StopNext ==
    \/ StopFlag \/ StopJoin \/ StopClose \/ StopAgain
    \/ BgCheck \/ BgReadAcquire \/ BgRead \/ BgBufAcquire \/ BgBuf
    \/ BgLogArgU1 \/ BgLogArgU2 \/ BgLogAcquire \/ BgLog \/ BgSleep

----------------------------------------------------------------------------
(* ProfileSpec: a SetpointProfile built from any rows, then looked up at any  *)
(* time                                                                       *)

\* rows of the CSV file, at most
MaxRows == 3

\* latest time asked of get_setpoints
MaxQueryTime == 11

\* whole periods added to a time, at most
MaxPeriods == 2

\* times and (T1, T2) values of the rows
SampleTimes == {0, 2, 5}
SampleValues == {<<10, 20>>, <<30, 40>>}

CsvRows == {[t |-> t, T1 |-> v[1], T2 |-> v[2]] : t \in SampleTimes, v \in SampleValues}

\* the files: any rows in any order, also none
RECURSIVE RowsOfLen(_)
RowsOfLen(n) ==
    IF n = 0 THEN {<< >>}
    ELSE {Append(rows, r) : rows \in RowsOfLen(n - 1), r \in CsvRows}

CsvFiles == UNION {RowsOfLen(n) : n \in 0..MaxRows}

ProfileInit ==
    /\ \E rows \in CsvFiles, interpolate \in BOOLEAN :
          /\ csvTimes = {rows[i].t : i \in 1..Len(rows)}
          /\ prof = SetpointProfile_init(rows, interpolate)
    /\ look = NoLookup
    /\ ctl = NoController /\ ctorValid = TRUE /\ keys0 = {}
    /\ pending = << >> /\ last = NoOp /\ tune = NoTune
    /\ plant = NoPlant /\ hist = << >>
    /\ pcR = "idle" /\ pcB = "idle" /\ clock = 0 /\ maxDur = None
    /\ ref = <<0, 0>> /\ meas = <<0, 0>> /\ cmd = <<0, 0>>
    /\ exc = "none" /\ intr = 0 /\ logArgs = <<0, 0>> /\ obs = NoObs

\* setpoint_profile.get_setpoints(t), and the same one or more periods later
GetSetpoints ==
    /\ prof.valid
    /\ \E t \in (-1)..MaxQueryTime, k \in 0..MaxPeriods :
          look' = [op |-> "get", t |-> t, den |-> 1, k |-> k,
                   out |-> get_setpoints(prof, t),
                   shifted |-> get_setpoints(prof, t + k * prof.t_end)]
    /\ UNCHANGED <<csvTimes, prof, ctrlVars, plantVars, loopVars>>

\* a profile whose times are counted in 1/den of a second
ScaleTimes(p, den) ==
    [p EXCEPT !.samples = [i \in 1..Len(p.samples) |->
                              [p.samples[i] EXCEPT !.t = den * p.samples[i].t]],
              !.t_end = den * p.t_end]

\* setpoint_profile.get_setpoints(n / 2) for odd and even n: the time n / 2 is
\* compared with, reduced by and subtracted from the sample times as n is
\* with twice the sample times
GetSetpointsHalf ==
    /\ prof.valid
    /\ \E n \in 0..(2 * MaxQueryTime) :
          LET out == get_setpoints(ScaleTimes(prof, 2), n)
          IN  look' = [op |-> "get", t |-> n, den |-> 2, k |-> 0,
                       out |-> out, shifted |-> out]
    /\ UNCHANGED <<csvTimes, prof, ctrlVars, plantVars, loopVars>>

ProfileNext == GetSetpoints \/ GetSetpointsHalf

----------------------------------------------------------------------------
(* The specifications. Each one runs its own part of the state and leaves    *)
(* the rest at an idle value.                                                *)

CtrlSpec == CtrlInit /\ [][CtrlNext]_vars

PlantSpec == PlantInit /\ [][PlantNext]_vars

ProfileSpec == ProfileInit /\ [][ProfileNext]_vars

TuneSpec == TuneInit /\ [][TuneNext]_vars

StopSpec == StopInit /\ [][StopNext]_vars

ClosedLoopSpec == ClosedLoopInit /\ [][ClosedLoopNext]_vars

\* the command is written and the plant is read again and again
StepSpec == StepInit /\ [][StepNext]_vars /\ WF_vars(StepWrite) /\ WF_vars(StepRead)

Spec == LoopInit /\ [][Next]_vars

\* both threads are scheduled whenever they can run
FairSpec == Spec /\ WF_vars(RunnerNext) /\ WF_vars(BgNext)

\* the same, and the main thread is not starved at the plant lock: the
\* acquisition thread leaves the lock free for its whole sleep in every
\* iteration, so a blocked acquire of the main thread gets the lock
LockFairSpec == Spec /\ SF_vars(RunnerNext) /\ WF_vars(BgNext)

----------------------------------------------------------------------------
(* Claims on the controller parameter map, checked under CtrlSpec *)

\* C1: a setParameters call whose prospective merged state violates
\* sampling_period > 0 or u_min < u_max (both present) fails with ValueError and
\* leaves every parameter value (map entries and attributes) as before the call
C1_RejectedUpdateChangesNothing ==
    (last.op = "set" /\ last.violates) => (last.result = "ValueError" /\ ~last.changed)

\* the documented example setParameters({"u_min": 50, "u_max": 10}) was rejected
C1_Witness ==
    /\ last.op = "set" /\ last.example /\ last.violates
    /\ last.result = "ValueError" /\ ~last.changed

\* C2 (as stated): a setParameters call whose dict holds a key outside the
\* initial key set fails and applies none of the supplied entries
C2_UnknownKeyNoPartialEffect ==
    (last.op = "set" /\ last.unknown) => (last.result # "ok" /\ ~last.changed)

ConstraintsHold(f) ==
    /\ f.sampling_period > 0
    /\ (f.u_min # None /\ f.u_max # None) => f.u_min < f.u_max

\* C3 (as stated): in every reachable controller state sampling_period > 0 and,
\* when both bounds are present, u_min < u_max; construction with arguments
\* violating this yields no controller
C3_ParameterConstraintsAlways ==
    /\ ctl # NoController => (ConstraintsHold(ctl.parameters) /\ ConstraintsHold(ctl.attrs))
    /\ ~ctorValid => ctl = NoController

\* C4 (as stated): in every reachable controller state the command returned by
\* computeControlAction is >= u_min when u_min is present and <= u_max when
\* u_max is present
C4_CommandWithinBounds ==
    last.op = "compute" =>
        /\ ctl.attrs.u_min # None => ctl.attrs.u_min <= last.u
        /\ ctl.attrs.u_max # None => last.u <= ctl.attrs.u_max

\* C5: the key set of the parameter map is, after any sequence of setParameters
\* calls, the key set it had right after construction
C5_KeySetNeverChanges == DOMAIN ctl.parameters = keys0

\* a call that raised KeyError after writing some entries left the key set alone
C5_Witness ==
    /\ last.op = "set" /\ last.result = "KeyError" /\ last.changed
    /\ DOMAIN ctl.parameters = keys0

----------------------------------------------------------------------------
(* Claims on the simulated plant, checked under PlantSpec *)

\* the reads and writes so far alternate read, write, read, ...: one read per
\* tick, followed by the tick's write
OneReadPerTick(h) ==
    \A i \in 1..Len(h) : h[i].op = (IF i % 2 = 1 THEN "read" ELSE "write")

\* u1 / u2 written at tick k of an alternating history (zero before the first)
Written1(h, k) == IF k <= 0 THEN 0 ELSE h[2 * k].u1
Written2(h, k) == IF k <= 0 THEN 0 ELSE h[2 * k].u2

\* C10: with dead_time = 3*dt (queue length 3) and one read per tick, the model
\* step of tick j is driven by the command written at tick j-3: a command
\* written at tick k drives the steps of ticks k+1 and k+2 not at all and the
\* step of tick k+3 first
C10_StepAppearsAtTickKPlus3 ==
    OneReadPerTick(hist) =>
        \A j \in 1..Len(hist) :
            2 * j - 1 <= Len(hist) =>
                /\ (plant.cfg.L1 = 3 * plant.cfg.log_interval) =>
                        hist[2 * j - 1].u1_delayed = Written1(hist, j - 3)
                /\ (plant.cfg.L2 = 3 * plant.cfg.log_interval) =>
                        hist[2 * j - 1].u2_delayed = Written2(hist, j - 3)

\* a step to 60 written at tick 1 after zeros drives the step of tick 4 and
\* not the steps of ticks 2 and 3
C10_Witness ==
    /\ plant.cfg.L1 = 3 * plant.cfg.log_interval /\ plant.n_delay1 = 3
    /\ OneReadPerTick(hist) /\ Len(hist) >= 7
    /\ hist[2].u1 = 60
    /\ hist[3].u1_delayed = 0 /\ hist[5].u1_delayed = 0 /\ hist[7].u1_delayed = 60

----------------------------------------------------------------------------
(* Claims on the closed loop, checked under Spec and FairSpec *)

\* C6 (as stated): once the runner has left run_closed_loop after any trigger
\* (duration reached, interrupt, exception in a tick), the zero write has been
\* performed, then process.stop() has been called, in this order, and no
\* controller-computed command was written after the zero write
C6_ShutdownZeroThenStop ==
    (pcR \in ExitPcs /\ obs.trigger # "none") =>
        /\ obs.zeroDone /\ obs.stopCalled
        /\ ~obs.stopBeforeZero /\ ~obs.ctlWriteAfterZero

Stopped == pcR \in ExitPcs /\ obs.finallyDone

\* C8: when run_closed_loop has returned, the zero write has completed, the
\* plant's last-written commands are (0, 0) and the acquisition thread has
\* ended; from then on the plant does not change (no model step, no actuator
\* write); and with both threads scheduled fairly a call of process.stop()
\* always comes to its end
C8_ShutdownSynchronous ==
    /\ [](Stopped => (obs.zeroDone /\ plant.u1 = 0 /\ plant.u2 = 0 /\ pcB = "dead"))
    /\ [][Stopped => plant' = plant]_vars
    /\ (pcR = "stop_flag") ~> (pcR \in ExitPcs)

\* a run that wrote controller commands, was stopped and returned with the
\* commands at zero and the acquisition thread ended
C8_Witness ==
    /\ pcR = "returned" /\ obs.finallyDone /\ obs.hasWritten /\ cmd[2] = 20
    /\ obs.zeroDone /\ plant.u1 = 0 /\ plant.u2 = 0
    /\ pcB = "dead" /\ ~plant.running

\* C9 (as stated): with a simulated plant, at every controller write of the
\* runner that follows an earlier one, the model has been advanced exactly once
\* since that earlier write
C9_OneModelStepBetweenWrites ==
    [][(~plant.hardware /\ obs.hasWritten /\ pcR = "write_locked" /\ pcR' = "sleep")
            => obs.steps = 1]_vars

----------------------------------------------------------------------------
(* Further claims on the simulated plant, checked under PlantSpec *)

\* the step of PlantSpec appends a read to the history
IsReadStep == Len(hist') = Len(hist) + 1 /\ hist'[Len(hist')].op = "read"

\* the model state of the simulated plant: temperatures, dead-time queues and
\* driving terms
ModelState(pl) ==
    <<pl.T1, pl.T2, pl.u1_queue, pl.u2_queue, pl.u1_delayed, pl.u2_delayed>>

\* the step is one read that pushed the last-written commands into the queues,
\* integrated both channels by one Euler step of size dt and returned the
\* resulting temperatures
ReadAdvancedBy(dt) ==
    /\ plant'.u1_queue = Append(Tail(plant.u1_queue), plant.u1)
    /\ plant'.u2_queue = Append(Tail(plant.u2_queue), plant.u2)
    /\ plant'.T1 = EulerStep(plant.T1, plant.cfg.Tamb, plant.cfg.K1, plant.cfg.tau1,
                             plant'.u1_delayed, dt)
    /\ plant'.T2 = EulerStep(plant.T2, plant.cfg.Tamb, plant.cfg.K2, plant.cfg.tau2,
                             plant'.u2_delayed, dt)
    /\ hist'[Len(hist')].T1 = plant'.T1
    /\ hist'[Len(hist')].T2 = plant'.T2

\* C11 (as stated): every read advances the model by one Euler step of size
\* dt = log_interval, using the last-written commands, and returns the
\* resulting temperatures; a step that is not a read leaves the model state
C11_ReadAdvancesByLogInterval ==
    [][/\ IsReadStep => ReadAdvancedBy(plant.cfg.log_interval)
       /\ ~IsReadStep => (ModelState(plant') = ModelState(plant))]_vars

\* C11 (amended): every read advances the model by one Euler step of size
\* dt = log_interval when log_interval > 0 and dt = 1 otherwise, whatever the
\* realtime_factor, using the last-written commands, and returns the resulting
\* temperatures; a step that is not a read leaves the model state
C11_ReadAdvancesByNominalDt ==
    [][/\ IsReadStep => ReadAdvancedBy(IF plant.cfg.log_interval > 0
                                        THEN plant.cfg.log_interval ELSE 1)
       /\ ~IsReadStep => (ModelState(plant') = ModelState(plant))]_vars

\* a plant built with log_interval = 0: a write of 60, then two reads with no
\* write between them, the second of which moved T1 under the command 60
C11_Witness ==
    /\ plant.cfg.log_interval = 0 /\ Len(hist) = 3
    /\ hist[1].op = "write" /\ hist[1].u1 = 60
    /\ hist[2].op = "read" /\ hist[3].op = "read"
    /\ hist[3].u1_delayed = 60 /\ hist[3].T1 # hist[2].T1

----------------------------------------------------------------------------
(* Further claims on the closed loop, checked under Spec and FairSpec *)

\* positions from which the next step of the acquisition thread reads or
\* writes the temperatures, the last-written commands or the queues: the body
\* of readProcessVariables, the buffer appends (self.u1, self.u2) and the
\* evaluation of the arguments self.u1, self.u2 of _log_data
BgAccessPcs == {"read_locked", "buf_locked", "log", "log_u2"}

\* the same for the main thread: the bodies of readProcessVariables and
\* writeControlCommands
MainAccessPcs == {"init_read_locked", "read_locked", "write_locked", "fin_write_locked"}

\* C12 (as stated): every step in which the acquisition thread or the main
\* thread (control loop, stop()) reads or writes the temperatures, the
\* last-written commands or the queues is taken while that thread holds the lock
C12_SharedStateUnderLock ==
    [][/\ (pcB \in BgAccessPcs /\ pcB' # pcB) => (plant.lock = "bg")
       /\ (pcR \in MainAccessPcs /\ pcR' # pcR) => (plant.lock = "main")]_vars

\* positions at which a thread is inside a with self.lock block
BgLockedPcs == {"read_locked", "buf_locked", "log_locked"}
MainLockedPcs == {"init_read_locked", "read_locked", "write_locked", "fin_write_locked"}

C14_DurationStopsRunner ==
    /\ [][(pcR = "top" /\ maxDur # None /\ clock >= maxDur) => (pcR' \notin TickPcs)]_vars
    /\ [](obs.trigger = "duration" => pcR \in (FinallyPcs \cup ExitPcs))
    /\ [](maxDur # None => <>(pcR \in ExitPcs))

\* a run with max_duration = 2 that wrote controller commands, was ended by the
\* duration test at t_proc = 2 and returned after its shutdown
C14_Witness ==
    /\ maxDur = 2 /\ clock = 2 /\ obs.trigger = "duration" /\ intr = 0
    /\ obs.hasWritten /\ pcR = "returned" /\ obs.finallyDone

\* C15 (as stated): after a plant read or write has failed in a tick, the
\* runner takes no further step of a tick (no retry), and when it has left
\* run_closed_loop the zero write and process.stop() have been performed and
\* the exception is propagating to the caller
C15_FailedTickShutsDownAndPropagates ==
    /\ (obs.trigger = "exception") => (pcR \notin (TryPcs \cup {"except"}))
    /\ (obs.trigger = "exception" /\ pcR \in ExitPcs) =>
            /\ obs.zeroDone /\ obs.stopCalled /\ obs.finallyDone
            /\ pcR = "raised" /\ exc # "none"

\* positions of the main thread inside init_controllers
InitPcs == {"init_read", "init_read_locked", "init_start1", "init_start2"}

\* C16: each controller's starting() is called at most once in a run and has
\* been called exactly once whenever that controller's computeControlAction
\* has run; a call of starting() comes after exactly one plant read of the
\* main thread, whose result (the measure passed) is still the current
\* measurement; and no step taken inside run_closed_loop calls starting()
C16_StartOnceBeforeCompute ==
    /\ [](\A i \in {1, 2} :
            /\ obs.starts[i] <= 1
            /\ obs.computes[i] => (obs.starts[i] = 1)
            /\ (obs.starts[i] = 1) => (obs.initReads = 1))
    /\ [][/\ (obs.starts' # obs.starts) =>
                (meas' = meas /\ obs.initReads = 1 /\ ~obs.computes[1] /\ ~obs.computes[2])
          /\ (pcR \notin InitPcs) => (obs.starts' = obs.starts)]_vars

\* both controllers were started once with the temperatures of the first read
\* and have computed a command
C16_Witness ==
    /\ obs.starts = <<1, 1>> /\ obs.computes = <<TRUE, TRUE>>
    /\ obs.initReads = 1
    /\ obs.hasWritten

----------------------------------------------------------------------------
(* Further claims on the controllers, checked under CtrlSpec *)

\* the saturation policy: clamp low first, then high, each bound optional
Saturate(u, lo, hi) ==
    IF lo # None /\ u < lo THEN lo
    ELSE IF hi # None /\ u > hi THEN hi
    ELSE u

\* C17: the command returned by the proportional controller's
\* computeControlAction(reference, measure, feedforward) is
\* saturate(Kp * (reference - measure) + feedforward) for the Kp, u_min, u_max
\* of its parameter map at the time of the call; for reference = measure and
\* feedforward = 0 it is saturate(0)
C17_ProportionalLaw ==
    (last.op = "compute" /\ ctl.kind = "P") =>
        /\ last.u = Saturate(ctl.parameters.Kp * (last.reference - last.measure)
                                + last.feedforward,
                             ctl.parameters.u_min, ctl.parameters.u_max)
        /\ (last.reference = last.measure /\ last.feedforward = 0) =>
                (last.u = Saturate(0, ctl.parameters.u_min, ctl.parameters.u_max))

\* compute(50, 50, 0) on a proportional controller with u_min = 10 returned
\* saturate(0) = 10
C17_Witness ==
    /\ last.op = "compute" /\ ctl.kind = "P"
    /\ last.reference = 50 /\ last.measure = 50 /\ last.feedforward = 0
    /\ ctl.parameters.u_min = 10 /\ last.u = 10

\* C18: in every state of a manual controller computeControlAction returns
\* saturate(manual_control_action) for all reference, measure, feedforward (so
\* any two calls in that state return the same command), and a call of
\* starting() with any arguments changes nothing of the controller
C18_ManualIgnoresInputs ==
    /\ (ctl # NoController /\ ctl.kind = "Manual") =>
            \A r \in RefVals, m \in MeasVals, f \in FfVals :
                computeControlAction(ctl, r, m, f) =
                    Saturate(ctl.parameters.manual_control_action,
                             ctl.parameters.u_min, ctl.parameters.u_max)
    /\ (last.op = "compute" /\ ctl.kind = "Manual") =>
            (last.u = Saturate(ctl.parameters.manual_control_action,
                               ctl.parameters.u_min, ctl.parameters.u_max))
    /\ (last.op = "start") => ~last.changed

\* a manual controller with manual_control_action = 120 and u_max = 100 was
\* asked with a nonzero feedforward and returned 100
C18_Witness ==
    /\ last.op = "compute" /\ ctl.kind = "Manual"
    /\ ctl.parameters.manual_control_action = 120 /\ ctl.parameters.u_max = 100
    /\ last.feedforward = 5 /\ last.reference = 30 /\ last.measure = 50
    /\ last.u = 100

----------------------------------------------------------------------------
(* Claims on the setpoint profile, checked under ProfileSpec *)

\* C19: for every profile, every t >= 0 and every k >= 0, get_setpoints(t) and
\* get_setpoints(t + k * t_end) return the same pair, with zero-order hold and
\* with interpolation
C19_LookupPeriodic ==
    (look.op = "get" /\ look.den = 1 /\ look.t >= 0) => (look.shifted = look.out)

\* an interpolated value strictly between two samples was returned for t and
\* for t two periods later
C19_Witness ==
    /\ look.op = "get" /\ look.den = 1 /\ prof.interpolate /\ look.k = 2 /\ look.t = 1
    /\ prof.t_end = 5 /\ Len(prof.samples) = 3
    /\ look.out = <<20, 30>> /\ look.shifted = <<20, 30>>

\* the profile of the example: rows (0, 10, 20) and (5, 30, 40), zero-order hold
ExampleProfile ==
    SetpointProfile_init(<<[t |-> 0, T1 |-> 10, T2 |-> 20],
                           [t |-> 5, T1 |-> 30, T2 |-> 40]>>, FALSE)

\* C20: with zero-order hold and t_mod = t mod t_end greater than the first
\* sample time, get_setpoints returns the values of prev, where prev and next
\* are consecutive samples with prev.t < t_mod <= next.t; for the rows
\* (0, 10, 20), (5, 30, 40) get_setpoints(3) and get_setpoints(5) are (10, 20)
C20_HoldReturnsPrev ==
    /\ (look.op = "get" /\ look.den = 1 /\ look.t >= 0 /\ ~prof.interpolate
            /\ look.t % prof.t_end > prof.samples[1].t) =>
          \E i \in 2..Len(prof.samples) :
              /\ prof.samples[i - 1].t < look.t % prof.t_end
              /\ look.t % prof.t_end <= prof.samples[i].t
              /\ look.out = <<prof.samples[i - 1].T1, prof.samples[i - 1].T2>>
    /\ (look.op = "get" /\ look.den = 1 /\ prof = ExampleProfile /\ look.t \in {3, 5}) =>
          (look.out = <<10, 20>>)

\* a three-sample profile asked exactly at its middle breakpoint t = 2 still
\* returns the first sample, whose value differs from the second
C20_Witness ==
    /\ look.op = "get" /\ look.den = 1 /\ ~prof.interpolate /\ look.t = 2
    /\ Len(prof.samples) = 3 /\ prof.samples[2].t = 2 /\ prof.t_end = 5
    /\ prof.samples[1].T1 = 10 /\ prof.samples[2].T1 = 30
    /\ look.out = <<10, 20>>

\* the profile of the example with linear interpolation
ExampleProfileInterpolated == [ExampleProfile EXCEPT !.interpolate = TRUE]

\* out is prev + ((t_mod - prev.t) / dt) * (next - prev) on one channel, the
\* quotient taken down to a whole degree, and lies between prev and next
Interpolates(out, prev, next, elapsed, dt) ==
    /\ dt * (out - prev) <= elapsed * (next - prev)
    /\ elapsed * (next - prev) < dt * (out - prev) + dt
    /\ Min(prev, next) <= out /\ out <= Max(prev, next)

\* C21: with interpolation and t_mod = t mod t_end greater than the first
\* sample time, get_setpoints returns, for the consecutive samples with
\* prev.t < t_mod <= next.t and next.t > prev.t,
\* prev + ((t_mod - prev.t) / (next.t - prev.t)) * (next - prev) per channel,
\* a value between prev's and next's; for the rows (0, 10, 20), (5, 30, 40)
\* get_setpoints(2.5) is (20, 30); for a pair with next.t = prev.t the loop
\* returns prev's values
C21_InterpolationLaw ==
    /\ (look.op = "get" /\ look.t >= 0 /\ prof.interpolate) =>
          LET q == ScaleTimes(prof, look.den)
              t_mod == look.t % q.t_end
          IN  (t_mod > q.samples[1].t) =>
                 \E i \in 2..Len(q.samples) :
                     LET prev == q.samples[i - 1]
                         next == q.samples[i]
                     IN  /\ prev.t < t_mod /\ t_mod <= next.t /\ next.t > prev.t
                         /\ Interpolates(look.out[1], prev.T1, next.T1,
                                         t_mod - prev.t, next.t - prev.t)
                         /\ Interpolates(look.out[2], prev.T2, next.T2,
                                         t_mod - prev.t, next.t - prev.t)
    /\ (look.op = "get" /\ look.den = 2 /\ look.t = 5
            /\ prof = ExampleProfileInterpolated) => (look.out = <<20, 30>>)
    /\ (look.op = "get" /\ prof.interpolate) =>
          \A i \in 2..Len(prof.samples) :
              (prof.samples[i].t = prof.samples[i - 1].t) =>
                  ScanSamples(prof, prof.samples[i].t, i)
                      = <<prof.samples[i - 1].T1, prof.samples[i - 1].T2>>

\* get_setpoints(2.5) on the interpolated example returned (20, 30)
C21_Witness ==
    /\ look.op = "get" /\ look.den = 2 /\ look.t = 5
    /\ prof = ExampleProfileInterpolated /\ look.out = <<20, 30>>

----------------------------------------------------------------------------
(* Claims on the step response, checked under StepSpec *)

\* C22: for the simulated plant with K = 1, tau = 10, L = 0, Tamb = 20, starting
\* at T = Tamb, under the constant command u = 20 and dt <= tau, the
\* temperatures of successive reads never decrease, never exceed
\* Tamb + K * u = 40, and converge to 40 (to within the last tau / dt units
\* of the temperature resolution)
C22_StepResponseMonotone ==
    /\ [](plant.T1 <= StepTarget)
    /\ [][plant'.T1 >= plant.T1]_vars
    /\ <>[](StepTarget - plant.T1 < plant.cfg.tau1)

\* with dt = 1 the temperature has risen from ambient to within a hundredth of
\* a degree of 40
C22_Witness ==
    /\ plant.cfg.log_interval = 1 /\ plant.cfg.Tamb = 20 * Resolution
    /\ plant.u1 = StepCommand /\ plant.T1 > plant.cfg.Tamb
    /\ StepTarget - plant.T1 < plant.cfg.tau1

----------------------------------------------------------------------------
(* Further claims on the setpoint profile, checked under ProfileSpec *)

\* C23: the construction of a SetpointProfile fails, leaving no object, when
\* the file has no rows, when the smallest sample time is not 0, or when the
\* largest sample time is not greater than 0; a constructed profile is
\* non-empty, sorted ascending by t, has first time 0 and t_end > 0, the
\* largest time of the file, and get_setpoints never modifies it
C23_ConstructionValidates ==
    /\ [](/\ (~prof.valid) <=>
                 \/ csvTimes = {}
                 \/ \E t \in csvTimes : \A other \in csvTimes : t <= other /\ t # 0
                 \/ \E t \in csvTimes : \A other \in csvTimes : t >= other /\ t <= 0
          /\ prof.valid =>
                 /\ Len(prof.samples) > 0
                 /\ {prof.samples[i].t : i \in 1..Len(prof.samples)} = csvTimes
                 /\ \A i \in 2..Len(prof.samples) :
                        prof.samples[i - 1].t <= prof.samples[i].t
                 /\ prof.samples[1].t = 0
                 /\ prof.t_end = prof.samples[Len(prof.samples)].t
                 /\ prof.t_end > 0)
    /\ [][prof' = prof]_vars

\* a profile of three samples at three different times has been constructed
\* and looked up
C23_Witness ==
    /\ prof.valid /\ csvTimes = {0, 2, 5} /\ Len(prof.samples) = 3
    /\ look.op = "get"

----------------------------------------------------------------------------
(* Claims on stopping a plant twice, checked under StopSpec *)

\* C24: a second stop() after a completed stop() raises no error and leaves
\* the plant stopped as it was: running flag false, acquisition thread ended,
\* log file closed, lab released
C24_StopIdempotent ==
    (obs.stops = MaxStops /\ pcR \in ExitPcs) =>
        /\ pcR = "returned"
        /\ ~plant.running /\ pcB = "dead" /\ ~plant.log_open /\ ~plant.lab_open

----------------------------------------------------------------------------
(* Further claims on the controllers, checked under CtrlSpec *)

\* C25: saturation is idempotent: with the bounds the controller holds, either
\* possibly absent, saturating a command that _apply_saturation returned
\* returns it unchanged
C25_SaturationIdempotent ==
    (last.op = "compute") => (apply_saturation(ctl, last.u) = last.u)

----------------------------------------------------------------------------
(* Claims on the closed loop, checked under ClosedLoopSpec *)

Abs(x) == IF x >= 0 THEN x ELSE -x

\* the measurement taken at simulated time 10 * tau or later
ClSettled == pcR = "cl_compute" /\ clock >= 10 * plant.cfg.tau1

----------------------------------------------------------------------------
(* Claims on tuning a controller in use, checked under TuneSpec *)

\* C27: a setParameters call of the dashboard thread is atomic for a compute of
\* the control loop running at the same time: compute sees all of the supplied
\* values or none of them and so never works with u_min >= u_max, and a
\* rejected call leaves the controller, and with it the commands, as before
C27_SetParametersAtomic ==
    /\ ~tune.torn
    /\ ~tune.badPair
    /\ (tune.pc = "idle" /\ tune.result = "ValueError") => (ctl = tune.before)

----------------------------------------------------------------------------
(* Further claims on the closed loop with its acquisition thread, checked   *)
(* under Spec                                                               *)

\* a thread is inside readProcessVariables with the lock, about to advance the
\* model of the simulated plant
AtModelStep ==
    /\ ~plant.hardware
    /\ pcB = "read_locked" \/ pcR \in {"init_read_locked", "read_locked"}

----------------------------------------------------------------------------
(* Claims on the dead-time queues, checked under PlantSpec *)

\* the reads of a history, in order
ReadEvents(h) == SelectSeq(h, LAMBDA ev : ev.op = "read")

\* the command in force at the read that lies `back` reads before read m, zero
\* before the first read
CommandAtRead1(h, m, back) ==
    IF m - back >= 1 THEN ReadEvents(h)[m - back].u1 ELSE 0
CommandAtRead2(h, m, back) ==
    IF m - back >= 1 THEN ReadEvents(h)[m - back].u2 ELSE 0

\* every read appends the last written command to the tail of each queue and
\* removes the head
QueueShifts ==
    /\ plant'.u1_queue = Append(Tail(plant.u1_queue), plant.u1)
    /\ plant'.u2_queue = Append(Tail(plant.u2_queue), plant.u2)

\* C29 as stated: on each read the last written u is pushed onto the tail and
\* the element popped from the head, the oldest before the push, is the
\* u_delayed of that Euler step, so that a command drives the model N reads
\* after the read that pushed it, N being the queue length
C29_PoppedHeadDrivesStep ==
    /\ [][IsReadStep =>
            /\ QueueShifts
            /\ plant'.u1_delayed = Head(plant.u1_queue)
            /\ plant'.u2_delayed = Head(plant.u2_queue)]_vars
    /\ [](\A m \in 1..Len(ReadEvents(hist)) :
            /\ ReadEvents(hist)[m].u1_delayed = CommandAtRead1(hist, m, plant.n_delay1)
            /\ ReadEvents(hist)[m].u2_delayed = CommandAtRead2(hist, m, plant.n_delay2))

\* C29, amended: on each read the head is popped and dropped, the last written
\* u is pushed onto the tail, and u_delayed is the head of the queue after the
\* push: the second-oldest element before it, or the pushed command itself
\* when N = 1. A command drives the model N - 1 reads after the read that
\* pushed it, which is the N-th read after it was written
C29_NewHeadDrivesStep ==
    /\ [][IsReadStep =>
            /\ QueueShifts
            /\ plant'.u1_delayed = plant'.u1_queue[1]
            /\ plant'.u2_delayed = plant'.u2_queue[1]
            /\ plant'.u1_delayed =
                  (IF plant.n_delay1 = 1 THEN plant.u1 ELSE plant.u1_queue[2])
            /\ plant'.u2_delayed =
                  (IF plant.n_delay2 = 1 THEN plant.u2 ELSE plant.u2_queue[2])]_vars
    /\ [](\A m \in 1..Len(ReadEvents(hist)) :
            /\ ReadEvents(hist)[m].u1_delayed
                  = CommandAtRead1(hist, m, plant.n_delay1 - 1)
            /\ ReadEvents(hist)[m].u2_delayed
                  = CommandAtRead2(hist, m, plant.n_delay2 - 1))

\* with a queue of three, the command 60 in force at the first read drives the
\* third read and not the second
C29_Witness ==
    /\ plant.n_delay1 = 3 /\ Len(ReadEvents(hist)) >= 3
    /\ ReadEvents(hist)[1].u1 = 60
    /\ ReadEvents(hist)[2].u1_delayed = 0
    /\ ReadEvents(hist)[3].u1_delayed = 60

\* u is a command within the actuator's range
InRange(u) == 0 <= u /\ u <= 100

\* out is u limited to the actuator's range
Limited(out, u) ==
    /\ (u < 0) => (out = 0)
    /\ (u > 100) => (out = 100)
    /\ InRange(u) => (out = u)

\* C30: after any writes, also with u1, u2 out of range, the stored commands
\* and every element of both dead-time queues lie in [0, 100], and
\* writeControlCommands returns the clamped pair it stored
C30_CommandsStayInRange ==
    /\ InRange(plant.u1) /\ InRange(plant.u2)
    /\ \A i \in 1..Len(plant.u1_queue) : InRange(plant.u1_queue[i])
    /\ \A i \in 1..Len(plant.u2_queue) : InRange(plant.u2_queue[i])
    /\ \A i \in 1..Len(hist) :
          (hist[i].op = "write") =>
              /\ hist[i].ret = <<hist[i].u1, hist[i].u2>>
              /\ Limited(hist[i].ret[1], hist[i].arg[1])
              /\ Limited(hist[i].ret[2], hist[i].arg[2])

\* the pair (130, -5) was written and read into the queues as (100, 0)
C30_Witness ==
    /\ \E i \in 1..Len(hist) :
          hist[i].op = "write" /\ hist[i].arg = <<130, -5>> /\ hist[i].ret = <<100, 0>>
    /\ \E i \in 1..Len(plant.u1_queue) : plant.u1_queue[i] = 100
    /\ plant.u1 = 100 /\ plant.u2 = 0

\* the order of the statements of one pass of the while loop of run_closed_loop
TickSuccession ==
    {<<"top", "lookup">>, <<"lookup", "read">>, <<"read", "read_locked">>,
     <<"read_locked", "compute1">>, <<"compute1", "compute2">>,
     <<"compute2", "write">>, <<"write", "write_locked">>,
     <<"write_locked", "sleep">>, <<"sleep", "emit">>, <<"emit", "top">>}

\* the commands the two controllers compute, with feedforward 0, from the
\* references at process time t and the measurements m
TickCommands(t, m) ==
    LET r == get_setpoints(setpoint_profile, t)
    IN  <<computeControlAction(controller1, r[1], m[1], 0),
          computeControlAction(controller2, r[2], m[2], 0)>>

\* what one step of the main thread inside the loop does
TickStep ==
    /\ (pcR \in TryPcs /\ pcR' \in TryPcs /\ pcR' # pcR)
          => <<pcR, pcR'>> \in TickSuccession
    /\ (pcR = "lookup" /\ pcR' = "read")
          => ref' = get_setpoints(setpoint_profile, clock)
    /\ (pcR = "read_locked" /\ pcR' = "compute1" /\ ~plant.hardware)
          => /\ meas' = <<plant'.T1, plant'.T2>>
             /\ plant' = Released(Fake_readProcessVariables(plant))
    /\ (pcR \in TickPcs \ {"lookup"}) => ref' = ref
    /\ (pcR \in TickPcs \ {"lookup", "read", "read_locked"}) => meas' = meas
    /\ (pcR \in {"write", "write_locked", "sleep", "emit"}) => cmd' = cmd
    /\ (pcR = "write_locked" /\ pcR' = "sleep")
          => /\ plant'.u1 = Clamp(cmd[1]) /\ plant'.u2 = Clamp(cmd[2])
    /\ (pcR \in TryPcs /\ (plant'.u1 # plant.u1 \/ plant'.u2 # plant.u2))
          => pcR = "write_locked"
    /\ (clock' # clock)
          => pcR = "sleep" /\ pcR' = "emit" /\ clock' = clock + SAMPLING_PERIOD

\* C31: within a tick the steps occur in the order process time, setpoint
\* lookup at that time, one plant read, compute of controller1 then controller2
\* with feedforward 0 from the tick's references and measurements, one write
\* of both commands, the sleep of one sampling period, the observer emit; the
\* commands a tick writes are computed from that tick's measurements
C31_TickOrder ==
    /\ [][TickStep]_vars
    /\ [](pcR \in {"write", "write_locked", "sleep"} => cmd = TickCommands(clock, meas))
    /\ [](pcR = "sleep" => obs.written = <<Clamp(cmd[1]), Clamp(cmd[2])>>)
    /\ [](pcR = "emit" => /\ cmd = TickCommands(clock - SAMPLING_PERIOD, meas)
                          /\ obs.written = <<Clamp(cmd[1]), Clamp(cmd[2])>>)

\* the second tick has written the command computed from its reference and
\* its measurement and is at the observer emit
C31_Witness ==
    /\ pcR = "emit" /\ clock = 2 * SAMPLING_PERIOD /\ ~plant.hardware
    /\ ref = get_setpoints(setpoint_profile, SAMPLING_PERIOD)
    /\ cmd[1] = 3 * (ref[1] - meas[1]) /\ cmd[1] > 0
    /\ plant.u1 = cmd[1] /\ obs.written = cmd

\* C32: the length of each channel's dead-time queue is
\* N = max(1, round(dead_time / dt)), and 1 when dead_time <= 0, from
\* construction on, whatever reads and writes the acquisition thread and the
\* control loop have made
C32_QueueLengthFixed ==
    ~plant.hardware =>
        LET dt == IF plant.cfg.log_interval > 0 THEN plant.cfg.log_interval ELSE 1
            N(L) == IF L <= 0 THEN 1 ELSE Max(1, RoundDiv(L, dt))
        IN  /\ Len(plant.u1_queue) = N(plant.cfg.L1)
            /\ Len(plant.u2_queue) = N(plant.cfg.L2)
            /\ plant.n_delay1 = N(plant.cfg.L1) /\ plant.n_delay2 = N(plant.cfg.L2)

\* the loop has written a command and both threads have read since: the
\* command went through the queue of two samples
C32_Witness ==
    /\ ~plant.hardware /\ obs.hasWritten /\ obs.steps >= 2
    /\ pcB = "sleep" /\ pcR \in TickPcs
    /\ Len(plant.u1_queue) = 2 /\ plant.u1_queue[1] > 0 /\ Len(plant.u2_queue) = 1

\* a setParameters call with a positive new sampling period and known keys only
PlainCall(c, d) ==
    /\ DictGet(d, "sampling_period", c.attrs.sampling_period) > 0
    /\ \A i \in 1..Len(d) : d[i].name \in DOMAIN c.parameters

\* what a step that runs a pending setParameters call does with the bounds
BoundsStep ==
    (pending # << >> /\ pending' = << >> /\ PlainCall(ctl, pending)) =>
        LET lo == DictGet(pending, "u_min", None)
            hi == DictGet(pending, "u_max", None)
        IN  /\ (HasKey(pending, "u_min") /\ HasKey(pending, "u_max")
                  /\ lo # None /\ hi # None /\ lo < hi)
               => /\ last'.result = "ok"
                  /\ ctl'.attrs.u_min = lo /\ ctl'.attrs.u_max = hi
                  /\ ctl'.parameters.u_min = lo /\ ctl'.parameters.u_max = hi
            /\ (HasKey(pending, "u_min") /\ ~HasKey(pending, "u_max"))
               => ((last'.result = "ValueError")
                     <=> (lo # None /\ ctl.attrs.u_max # None /\ lo >= ctl.attrs.u_max))
            /\ (HasKey(pending, "u_max") /\ ~HasKey(pending, "u_min"))
               => ((last'.result = "ValueError")
                     <=> (hi # None /\ ctl.attrs.u_min # None /\ ctl.attrs.u_min >= hi))

\* C33: setParameters validates the prospective merged state: a call that
\* supplies both bounds with new u_min < new u_max succeeds and applies both,
\* also when new u_min >= old u_max or new u_max <= old u_min, and a call that
\* supplies one bound is validated against the current value of the other
C33_ValidatesMergedState == [][BoundsStep]_vars

\* a call with both bounds, one of them beyond the other's old value, has
\* succeeded and both are stored
C33_Witness ==
    /\ last.op = "set" /\ last.crossed /\ last.result = "ok" /\ ~last.unknown
    /\ ctl.attrs.u_min # None /\ ctl.attrs.u_max # None
    /\ ctl.attrs.u_min < ctl.attrs.u_max

\* C34: after any setParameters calls, successful or failed, the value
\* getParameters returns for a key equals the attribute of the same name, which
\* is what compute and saturation use; writing into the dict returned does not
\* change the controller
C34_MapMatchesAttributes ==
    /\ \A k \in DOMAIN ctl.parameters :
          /\ k \in DOMAIN ctl.attrs
          /\ getParameters(ctl).dict[k] = ctl.attrs[k]
    /\ (last.op = "get") => ~last.changed

\* a call has failed with KeyError after it had written a part of its dict
C34_Witness ==
    /\ last.op = "set" /\ last.result = "KeyError" /\ last.changed
    /\ ctl.parameters.u_min = 50 /\ ctl.attrs.u_min = 50

\* the for loop of get_setpoints ends without a return: t_mod is greater than
\* every sample time
FallsThrough(p, t) ==
    LET t0 == IF t < 0 THEN 0 ELSE t
        t_mod == t0 % p.t_end
    IN  \A i \in 1..Len(p.samples) : ~(t_mod <= p.samples[i].t)

\* the values of the last sample are those of no other sample
LastIsUnique(p) ==
    \A i \in 1..(Len(p.samples) - 1) :
        <<p.samples[i].T1, p.samples[i].T2>>
            # <<p.samples[Len(p.samples)].T1, p.samples[Len(p.samples)].T2>>

\* C35: with zero-order hold the values of the last sample are returned for no
\* t, unless another sample has the same values, and the final return of the
\* last sample is never reached, t mod t_end being less than t_end
C35_LastSampleNeverHeld ==
    (look.op = "get") =>
        /\ ~FallsThrough(ScaleTimes(prof, look.den), look.t)
        /\ (~prof.interpolate /\ LastIsUnique(prof))
              => look.out # <<prof.samples[Len(prof.samples)].T1,
                              prof.samples[Len(prof.samples)].T2>>

\* half a second before the end of the period a held profile of three samples
\* still returns the second sample
C35_Witness ==
    /\ look.op = "get" /\ look.den = 2 /\ look.t = 2 * prof.t_end - 1
    /\ ~prof.interpolate /\ Len(prof.samples) = 3 /\ LastIsUnique(prof)
    /\ prof.samples[2].t < prof.t_end
    /\ look.out = <<prof.samples[2].T1, prof.samples[2].T2>>

\* the values of sample i of a profile
ValuesAt(p, i) == <<p.samples[i].T1, p.samples[i].T2>>

\* C36: get_setpoints returns a pair for every t: for a negative t what it
\* returns for 0, the values of the first sample; for a t with t mod t_end = 0
\* the values of the first sample; and the values of the last sample when no
\* bracketing pair is found
C36_GetSetpointsTotal ==
    (look.op = "get") =>
        LET p == ScaleTimes(prof, look.den)
        IN  /\ Len(look.out) = 2 /\ look.out[1] \in Int /\ look.out[2] \in Int
            /\ (look.t < 0)
                  => look.out = get_setpoints(p, 0) /\ look.out = ValuesAt(p, 1)
            /\ (look.t >= 0 /\ look.t % p.t_end = 0) => look.out = ValuesAt(p, 1)
            /\ ScanSamples(p, p.t_end + 1, 2) = ValuesAt(p, Len(p.samples))

\* a call with t = -1 has returned the first sample, which is not what the
\* profile holds one second before the end of its period
C36_Witness ==
    /\ look.op = "get" /\ look.t = -1 /\ look.out = ValuesAt(prof, 1)
    /\ get_setpoints(prof, prof.t_end - 1) # look.out

\* a step of the plant's caller that is a readProcessVariables call
PlantReadStep == Len(hist') = Len(hist) + 1 /\ hist'[Len(hist')].op = "read"

\* what a read does to the plant when tau <= 0 on a channel: that channel's
\* temperature stays, its queue is shifted all the same, and the other channel,
\* if its tau is positive, makes its Euler step from its own delayed command
DisabledChannelStep ==
    PlantReadStep =>
        LET dt == NominalDt(plant.cfg)
        IN  /\ (plant.cfg.tau1 <= 0)
               => /\ plant'.T1 = plant.T1
                  /\ plant'.u1_queue = Append(Tail(plant.u1_queue), plant.u1)
                  /\ (plant.cfg.tau2 > 0)
                     => plant'.T2 = plant.T2
                          + (dt * (-(plant.T2 - plant.cfg.Tamb)
                                   + plant.cfg.K2 * plant'.u2_queue[1])) \div plant.cfg.tau2
            /\ (plant.cfg.tau2 <= 0)
               => /\ plant'.T2 = plant.T2
                  /\ plant'.u2_queue = Append(Tail(plant.u2_queue), plant.u2)
                  /\ (plant.cfg.tau1 > 0)
                     => plant'.T1 = plant.T1
                          + (dt * (-(plant.T1 - plant.cfg.Tamb)
                                   + plant.cfg.K1 * plant'.u1_queue[1])) \div plant.cfg.tau1

\* C37: on a channel of the simulated plant with tau <= 0 every read leaves
\* the temperature unchanged, whatever commands were written, while the
\* channel's dead-time queue is still shifted on each read and the other
\* channel integrates on its own
C37_DisabledChannelHolds == [][DisabledChannelStep]_vars

\* channel 1 has tau = -1: the command 60 has come through its queue and T1 is
\* still the ambient temperature, while T2 has moved
C37_Witness ==
    /\ plant.cfg.tau1 < 0 /\ plant.cfg.tau2 > 0
    /\ Len(hist) >= 3 /\ hist[Len(hist)].op = "read"
    /\ plant.u1_delayed = 60 /\ plant.u1_queue[1] = 60
    /\ plant.T1 = plant.cfg.Tamb /\ plant.T2 # plant.cfg.Tamb

====
